---- MODULE Spec2Model ----
(***************************************************************************)
(* Receipt Extractor: the analysis client (ocrService.js), the upload      *)
(* handler and the submit handler (server.js) as state machines.           *)
(***************************************************************************)
EXTENDS Integers, Sequences, FiniteSets, TLC

VARIABLES
    env,        \* process.env as the server sees it, and the inputs enumerated
    today,      \* new Date().toISOString().slice(0, 10)
    ocr,        \* one analyzeReceipt call per analysis id
    batches,    \* the batch directories under TMP_ROOT and the files in each
    store,      \* the external list: the records created and their attachments
    sub,        \* one POST /api/submit request per request id
    multerTmp,  \* the files multer has written under TMP_ROOT
    up          \* one POST /api/upload request per request id

(***************************************************************************)
(* JavaScript values                                                       *)
(***************************************************************************)
Undefined == [type |-> "undefined", s |-> "", n |-> 0]
Null == [type |-> "null", s |-> "", n |-> 0]
Str(x) == [type |-> "string", s |-> x, n |-> 0]
\* numbers are kept in hundredths: Num(50) is 0.5
Num(k) == [type |-> "number", s |-> "", n |-> k]

Truthy(v) ==
    \/ v.type = "string" /\ v.s # ""
    \/ v.type = "number" /\ v.n # 0
    \/ v.type = "object"

\* a || b
OrElse(a, b) == IF Truthy(a) THEN a ELSE b

\* typeof v
TypeOf(v) == IF v.type = "null" THEN "object" ELSE v.type

\* an object as the list of its own entries, in insertion order
Entry(k, v) == [k |-> k, v |-> v]
Keys(obj) == {obj[i].k : i \in 1..Len(obj)}
HasKey(obj, k) == k \in Keys(obj)
Get(obj, k) ==
    IF HasKey(obj, k)
    THEN obj[CHOOSE i \in 1..Len(obj) : obj[i].k = k].v
    ELSE Undefined

(***************************************************************************)
(* Bounds                                                                  *)
(***************************************************************************)
DayCount == 2
MaxBatchFiles == 2
MaxUploadFiles == 2
\* the file parts of one request through the multer stage, and how many of
\* them may differ from a plain receipt image
MaxParts == 6
MaxOddFiles == 2
\* file parts of an upload request that has to authenticate
MaxAuthFiles == 1

(***************************************************************************)
(* ocrService.js                                                           *)
(***************************************************************************)
maxRetries == 12
pollInterval == 2000
requestTimeout == 10000
MaxDelay == 10000
ConfidenceThreshold == 50

Dates == [d \in 1..3 |-> IF d = 1 THEN "2024-01-01"
                         ELSE IF d = 2 THEN "2024-01-02" ELSE "2024-01-03"]

\* a field of an analyzed document; NoField is a field the service left out
NoField == [present |-> FALSE, confidence |-> Undefined,
            content |-> Undefined, value |-> Undefined]
Field(c, content, value) ==
    [present |-> TRUE, confidence |-> c, content |-> content, value |-> value]

_getMockData(date) ==
    << Entry("vendor", Str("Demo Store")),
       Entry("total", Str("12.34")),
       Entry("transactionDate", Str(date)),
       Entry("merchantAddress", Str("")),
       Entry("merchantPhone", Str("")),
       Entry("subtotal", Str("10.99")),
       Entry("tax", Str("1.35")),
       Entry("confidence", Num(95)) >>

_extractFieldValue(field) ==
    IF ~field.present THEN Null
    ELSE IF Truthy(field.confidence) /\ field.confidence.n < ConfidenceThreshold
         THEN Null
    ELSE OrElse(OrElse(field.content, field.value), Null)

\* ocrResult: [doc, fields, confidence]; doc says how much of
\* analyzeResult.documents[0] the payload carries
_extractReceiptData(ocrResult, date) ==
    IF ocrResult.doc # "fields" THEN _getMockData(date)
    ELSE
      LET fields == ocrResult.fields IN
      << Entry("vendor", OrElse(OrElse(_extractFieldValue(fields.MerchantName),
                                       _extractFieldValue(fields.VendorName)),
                                Str(""))),
         Entry("total", OrElse(_extractFieldValue(fields.Total), Str(""))),
         Entry("transactionDate",
               OrElse(_extractFieldValue(fields.TransactionDate), Str(""))),
         Entry("merchantAddress",
               OrElse(_extractFieldValue(fields.MerchantAddress), Str(""))),
         Entry("merchantPhone",
               OrElse(_extractFieldValue(fields.MerchantPhoneNumber), Str(""))),
         Entry("subtotal", OrElse(_extractFieldValue(fields.Subtotal), Str(""))),
         Entry("tax", OrElse(_extractFieldValue(fields.TotalTax), Str(""))),
         Entry("confidence", OrElse(ocrResult.confidence, Num(0))) >>

(***************************************************************************)
(* What the analysis service and the network can answer                    *)
(***************************************************************************)
FieldChoices ==
    IF env.universe = "full"
    THEN { NoField,
           Field(Num(90), Str("ACME"), Undefined),
           Field(Num(30), Str("ACME"), Undefined),
           Field(Num(0), Str("ACME"), Undefined),
           Field(Undefined, Undefined, Num(1234)) }
    ELSE { NoField, Field(Num(90), Str("ACME"), Undefined) }

DocFields(mn, vn, rest) ==
    [MerchantName |-> mn, VendorName |-> vn, Total |-> rest,
     TransactionDate |-> rest, MerchantAddress |-> rest,
     MerchantPhoneNumber |-> rest, Subtotal |-> rest, TotalTax |-> rest]

NoDocFields == DocFields(NoField, NoField, NoField)

NoPayload == [doc |-> "none", fields |-> NoDocFields, confidence |-> Undefined]

\* the bodies a poll response with status succeeded can carry
Payloads ==
    { NoPayload }
    \cup
    IF env.universe = "full"
    THEN { [doc |-> "nofields", fields |-> NoDocFields,
            confidence |-> Num(80)] }
         \cup
         { [doc |-> "fields", fields |-> DocFields(mn, vn, rest),
            confidence |-> c] :
              mn \in FieldChoices, vn \in FieldChoices,
              rest \in FieldChoices, c \in {Undefined, Num(80)} }
    ELSE { [doc |-> "fields", fields |-> DocFields(f, NoField, f),
            confidence |-> Num(80)] : f \in FieldChoices }

\* the response to the start request (_makeRequest in _startAnalysis)
StartResponses ==
    IF env.universe = "full"
    THEN {"accepted", "noHeader", "notAccepted", "netError", "timeout"}
    ELSE {"accepted", "notAccepted"}

\* the response to one poll request
PollStatuses ==
    IF env.universe = "full"
    THEN {"succeeded", "failed", "running", "notStarted", "canceled"}
    ELSE {"succeeded", "failed", "running"}
PollErrors ==
    IF env.universe = "full" THEN {"timeout", "netError", "notOk"}
    ELSE {"timeout"}
PollResponses ==
    { [kind |-> k, status |-> "none", payload |-> NoPayload] :
        k \in PollErrors }
    \cup { [kind |-> "json", status |-> st, payload |-> NoPayload] :
             st \in PollStatuses \ {"succeeded"} }
    \cup { [kind |-> "json", status |-> "succeeded", payload |-> p] :
             p \in Payloads }

(***************************************************************************)
(* analyzeReceipt as a process: pc is the await it is suspended at         *)
(***************************************************************************)
IdleOcr ==
    [pc |-> "idle", attempt |-> 0, delay |-> 0, waited |-> 0,
     reads |-> 0, starts |-> 0, polls |-> 0,
     out |-> "none", data |-> << >>, failure |-> "none"]

\* the promise resolves with data; the locals of the call are gone
Resolve(o, data, failure) ==
    [o EXCEPT !.pc = "done", !.out = "resolved", !.data = data,
              !.failure = failure, !.attempt = 0, !.delay = 0, !.waited = 0]

\* the promise rejects
Reject(o, failure) ==
    [o EXCEPT !.pc = "done", !.out = "rejected", !.failure = failure,
              !.attempt = 0, !.delay = 0, !.waited = 0]

\* analyzeReceipt without its try/catch: the error reaches the caller
Catch_rethrows(o, failure) == Reject(o, failure)

\* catch (error) { return this._getMockData() }  of analyzeReceipt
Catch(o, failure) == Resolve(o, _getMockData(today), failure)

\* analyzeReceipt without its test of endpoint and apiKey
analyzeReceipt_noDemoShortcut(o) == [o EXCEPT !.pc = "readFile"]

\* analyzeReceipt(filePath) up to its first await
analyzeReceipt(o) ==
    IF ~env.ocrConfigured
    THEN Resolve(o, _getMockData(today), "none")
    ELSE [o EXCEPT !.pc = "readFile"]

\* fs.promises.readFile(filePath) settles
ReadFile(a) ==
    /\ ocr[a].pc = "readFile"
    /\ \E ok \in BOOLEAN :
         LET o == [ocr[a] EXCEPT !.reads = @ + 1] IN
         ocr' = [ocr EXCEPT ![a] =
                   IF ok THEN [o EXCEPT !.pc = "startRequest"]
                   ELSE Catch(o, "readError")]
    /\ UNCHANGED <<env, today, batches, store, sub, multerTmp, up>>

\* the start request settles
_startAnalysis(a) ==
    /\ ocr[a].pc = "startRequest"
    /\ \E r \in StartResponses :
         LET o == [ocr[a] EXCEPT !.starts = @ + 1] IN
         ocr' = [ocr EXCEPT ![a] =
                   CASE r = "accepted" ->
                          [o EXCEPT !.pc = "poll", !.attempt = 0,
                                    !.delay = pollInterval]
                     [] r = "noHeader" -> Catch(o, "noOperationLocation")
                     [] r = "notAccepted" -> Catch(o, "startNotAccepted")
                     [] r = "netError" -> Catch(o, "requestError")
                     [] OTHER -> Catch(o, "requestTimeout")]
    /\ UNCHANGED <<env, today, batches, store, sub, multerTmp, up>>

\* a loop without the re-throw on the last attempt and without the
\* attempt < maxRetries test
NextAttempt_unbounded(o, error) == [o EXCEPT !.attempt = @ + 1, !.pc = "delay"]

\* a loop that ends at the first response that is not `succeeded`
NextAttempt_givesUp(o, error) ==
    Catch(o, IF error = "none" THEN "timedOut" ELSE error)

\* the end of one iteration of the while loop that did not return
NextAttempt(o, error) ==
    IF error # "none" /\ o.attempt = maxRetries - 1
    THEN Catch(o, error)
    ELSE IF o.attempt + 1 < maxRetries
         THEN [o EXCEPT !.attempt = @ + 1, !.pc = "delay"]
         ELSE Catch([o EXCEPT !.attempt = @ + 1], "timedOut")

\* a loop whose catch re-throws whatever the request or the status threw
PollOutcome_abortsOnError(o, resp) ==
    CASE resp.kind = "timeout" -> Catch(o, "requestTimeout")
      [] resp.kind = "netError" -> Catch(o, "requestError")
      [] resp.kind = "notOk" -> Catch(o, "pollNotOk")
      [] resp.status = "succeeded" ->
           Resolve(o, _extractReceiptData(resp.payload, today), "none")
      [] resp.status \in {"running", "notStarted"} -> NextAttempt(o, "none")
      [] OTHER -> Catch(o, "pollFailed")

\* the try block of one iteration: the response of the poll request is
\* handled, and what is thrown is caught by the catch of the loop
PollOutcome(o, resp) ==
    CASE resp.kind = "timeout" -> NextAttempt(o, "requestTimeout")
      [] resp.kind = "netError" -> NextAttempt(o, "requestError")
      [] resp.kind = "notOk" -> NextAttempt(o, "pollNotOk")
      [] resp.status = "succeeded" ->
           Resolve(o, _extractReceiptData(resp.payload, today), "none")
      [] resp.status = "failed" -> NextAttempt(o, "pollFailed")
      [] resp.status \in {"running", "notStarted"} -> NextAttempt(o, "none")
      [] OTHER -> NextAttempt(o, "unknownStatus")

\* one poll request settles and its response is handled
_pollForResults(a) ==
    /\ ocr[a].pc = "poll"
    /\ ocr[a].attempt < maxRetries
    /\ \E resp \in PollResponses :
         LET o == [ocr[a] EXCEPT !.polls = @ + 1] IN
         ocr' = [ocr EXCEPT ![a] = PollOutcome(o, resp)]
    /\ UNCHANGED <<env, today, batches, store, sub, multerTmp, up>>

Min(x, y) == IF x < y THEN x ELSE y

\* a backoff that is not capped
Backoff_uncapped(delay, jitter) == (delay * 12) \div 10 + jitter

\* Math.min(delay * 1.2 + Math.random() * 1000, 10000), in whole ms
Backoff(delay, jitter) == Min((delay * 12) \div 10 + jitter, MaxDelay)

\* await this._delay(delay), then the backoff
_delay(a) ==
    /\ ocr[a].pc = "delay"
    /\ \E jitter \in env.jitters :
         ocr' = [ocr EXCEPT ![a] =
                   [@ EXCEPT !.pc = "poll", !.waited = ocr[a].delay,
                             !.delay = Backoff(ocr[a].delay, jitter)]]
    /\ UNCHANGED <<env, today, batches, store, sub, multerTmp, up>>

\* a caller other than the upload handler invokes analyzeReceipt
CallAnalyze(a) ==
    /\ env.universe = "full"
    /\ ocr[a].pc = "idle"
    /\ ocr' = [ocr EXCEPT ![a] = analyzeReceipt(ocr[a])]
    /\ UNCHANGED <<env, today, batches, store, sub, multerTmp, up>>

\* midnight passes
Tick ==
    /\ \E d \in 1..(DayCount - 1) :
         /\ today = Dates[d]
         /\ today' = Dates[d + 1]
    /\ UNCHANGED <<env, ocr, batches, store, sub, multerTmp, up>>


(***************************************************************************)
(* server.js: batch identifiers and paths                                  *)
(***************************************************************************)
Digits == {"0", "1", "2", "3", "4", "5", "6", "7", "8", "9"}
LowerAlnum == Digits \cup
    {"a", "b", "c", "d", "e", "f", "g", "h", "i", "j", "k", "l", "m",
     "n", "o", "p", "q", "r", "s", "t", "u", "v", "w", "x", "y", "z"}

\* a pattern that lets every string through
BATCH_ID_REGEX_any(id) == TRUE

\* /^batch-[0-9]+-[a-z0-9]+$/ on a string given as its characters
BATCH_ID_REGEX(id) ==
    /\ Len(id) >= 9
    /\ SubSeq(id, 1, 6) = <<"b", "a", "t", "c", "h", "-">>
    /\ \E k \in 7..(Len(id) - 2) :
         /\ \A i \in 7..k : id[i] \in Digits
         /\ id[k + 1] = "-"
         /\ \A i \in (k + 2)..Len(id) : id[i] \in LowerAlnum

\* the path segments of a string: the pieces between "/" characters
RECURSIVE Segments(_)
Segments(str) ==
    IF \A i \in 1..Len(str) : str[i] # "/" THEN << str >>
    ELSE LET k == CHOOSE i \in 1..Len(str) :
                    str[i] = "/" /\ \A j \in 1..(i - 1) : str[j] # "/"
         IN << SubSeq(str, 1, k - 1) >> \o Segments(SubSeq(str, k + 1, Len(str)))

TMP_ROOT == << <<"a", "p", "p">>, <<".", "t", "m", "p">> >>

\* path.resolve(base, ...segments): "." and "" stay, ".." goes one up
RECURSIVE Walk(_, _)
Walk(base, segs) ==
    IF segs = << >> THEN base
    ELSE LET h == Head(segs) IN
         Walk(IF h = << >> \/ h = <<".">> THEN base
              ELSE IF h = <<".", ".">>
                   THEN (IF base = << >> THEN base
                         ELSE SubSeq(base, 1, Len(base) - 1))
              ELSE Append(base, h),
              Tail(segs))

PathResolve(base, str) ==
    IF str # << >> /\ str[1] = "/" THEN Walk(<< >>, Segments(str))
    ELSE Walk(base, Segments(str))

\* src.startsWith(TMP_ROOT + path.sep)
InsideTmpRoot(src) ==
    /\ Len(src) > Len(TMP_ROOT)
    /\ SubSeq(src, 1, Len(TMP_ROOT)) = TMP_ROOT

\* a request value that is a string, or is missing
NoString == [def |-> FALSE, str |-> << >>]
StringOf(chars) == [def |-> TRUE, str |-> chars]
TruthyString(v) == v.def /\ v.str # << >>

\* functions with a growing or shrinking domain
Put(f, k, v) == [x \in DOMAIN f \cup {k} |-> IF x = k THEN v ELSE f[x]]
Remove(f, k) == [x \in DOMAIN f \ {k} |-> f[x]]

(***************************************************************************)
(* server.js: the field schema and the external store                      *)
(***************************************************************************)
FIELD_SCHEMA == {"vendor", "total", "transactionDate", "merchantAddress",
                 "merchantPhone", "subtotal", "tax"}

\* names FIELD_SCHEMA[k] finds on Object.prototype: the value found is a
\* function or an object, never equal to a typeof string
ObjectPrototype == {"constructor", "toString", "__proto__"}

\* validateFields without the typeof test
validateFrom_noTypeCheck(fields, i) ==
    IF \E j \in i..Len(fields) : fields[j].k \notin FIELD_SCHEMA
    THEN [ok |-> FALSE, message |-> "Invalid field",
          key |-> fields[CHOOSE j \in i..Len(fields) :
                           fields[j].k \notin FIELD_SCHEMA].k]
    ELSE [ok |-> TRUE, message |-> "", key |-> ""]

\* the entries of fields from position i on
RECURSIVE validateFrom(_, _)
validateFrom(fields, i) ==
    IF i > Len(fields) THEN [ok |-> TRUE, message |-> "", key |-> ""]
    ELSE IF fields[i].k \notin FIELD_SCHEMA \cup ObjectPrototype
         THEN [ok |-> FALSE, message |-> "Invalid field", key |-> fields[i].k]
    ELSE IF fields[i].k \in ObjectPrototype \/ TypeOf(fields[i].v) # "string"
         THEN [ok |-> FALSE, message |-> "Invalid type", key |-> fields[i].k]
    ELSE validateFrom(fields, i + 1)

\* [ok, message, key]: whether validateFields returns, or what it throws
validateFields(fields) == validateFrom(fields, 1)

\* what JSON.stringify followed by JSON.parse leaves of an object
Json(obj) == SelectSeq(obj, LAMBDA e : e.v.type # "undefined")

EmptyStore == [records |-> {}, attachments |-> {}]


(***************************************************************************)
(* server.js: POST /api/submit                                             *)
(***************************************************************************)
MaxSignatureBytes == 102400
PngPrefix == "data:image/png;base64,"

\* a signature data URL: its text up to and including the first comma, the
\* number of characters after it, and how many of those are base64 digits
NoSignature == [def |-> FALSE, prefix |-> "", payloadLen |-> 0, b64Len |-> 0]
Signature(prefix, payloadLen, b64Len) ==
    [def |-> TRUE, prefix |-> prefix, payloadLen |-> payloadLen,
     b64Len |-> b64Len]
TruthySignature(sig) == sig.def /\ (sig.prefix # "" \/ sig.payloadLen > 0)

\* signatureDataUrl.match(/^data:image\/png;base64,(.+)$/)
SignatureMatches(sig) == sig.prefix = PngPrefix /\ sig.payloadLen >= 1

\* Buffer.from(m[1], 'base64').byteLength
DecodedBytes(sig) == (sig.b64Len * 3) \div 4

\* validateInputForSignature(buf, { maxBytes }) returns
validateInputForSignature(byteLength, maxBytes) ==
    ~(byteLength = 0 \/ byteLength > maxBytes)

NoResponse == [status |-> 0, message |-> "", ok |-> FALSE,
               itemId |-> << >>, requestId |-> FALSE]
Response(status, message) ==
    [status |-> status, message |-> message, ok |-> FALSE,
     itemId |-> << >>, requestId |-> FALSE]

NoBody == [fields |-> [def |-> FALSE, obj |-> << >>], origin |-> "none",
           signatureDataUrl |-> NoSignature, batchId |-> NoString]

(***************************************************************************)
(* server.js: requireAuth                                                  *)
(***************************************************************************)
\* req.headers.authorization: the text before the credentials, with its
\* blank, and the credentials
NoHeader == [def |-> FALSE, scheme |-> "", rest |-> ""]
Header(scheme, rest) == [def |-> TRUE, scheme |-> scheme, rest |-> rest]

AuthorizationHeaders ==
    { NoHeader,
      Header("", ""),
      Header("Bearer ", ""),
      Header("Bearer ", "valid-token"),
      Header("Bearer ", "forged-token"),
      Header("Basic ", "dXNlcjpwdw=="),
      Header("bearer ", "valid-token") }

\* h.startsWith("Bearer ") ? h.slice(7) : null, with h = header || ""
BearerToken(header) ==
    LET h == IF header.def THEN header ELSE Header("", "") IN
    IF h.scheme = "Bearer " THEN [def |-> TRUE, s |-> h.rest]
    ELSE [def |-> FALSE, s |-> ""]

\* a requireAuth that lets a request without a token through
requireAuth_passesAnonymous(bypass, header) ==
    LET token == BearerToken(header) IN
    IF bypass \/ ~token.def \/ token.s = "" THEN "next" ELSE "validate"

\* requireAuth up to the call of validateAADToken
requireAuth(bypass, header) ==
    LET token == BearerToken(header) IN
    IF bypass THEN "next"
    ELSE IF ~token.def \/ token.s = "" THEN "missing"
    ELSE "validate"

\* how validateAADToken(token) can settle: only a token that the issuer
\* signed for this API resolves, and it too is rejected when it has expired
\* or the signing keys cannot be fetched
Verdicts(token) ==
    IF token = "valid-token" THEN {"resolved", "rejected"} ELSE {"rejected"}

NoAuth == [header |-> NoHeader, verdict |-> "none"]

\* requireAuth on a request record s; missing is the 401 response
Authenticate(s, header, missing) ==
    LET d == requireAuth(env.authBypass, header) IN
    CASE d = "next" ->
           [s EXCEPT !.pc = "next",
                     !.auth = [header |-> header, verdict |-> "bypass"]]
      [] d = "missing" ->
           [s EXCEPT !.pc = "done", !.response = missing,
                     !.auth = [header |-> header, verdict |-> "missing"]]
      [] OTHER ->
           [s EXCEPT !.pc = "validateAADToken",
                     !.auth = [header |-> header, verdict |-> "pending"]]

\* .then(() => next()) / .catch(err => res.status(401).json(...))
Verified(s, verdict, unauthorized) ==
    IF verdict = "resolved"
    THEN [s EXCEPT !.pc = "next", !.auth.verdict = verdict]
    ELSE [s EXCEPT !.pc = "done", !.auth.verdict = verdict,
                   !.response = unauthorized]

\* where a route handler finds its request: behind requireAuth, or at
\* arrival when the request is taken as authenticated
EntryPc == IF env.universe = "auth" THEN "next" ELSE "idle"

\* the Error a Graph helper throws when the service answers !r.ok:
\* `${what} failed: ${r.status} ${await r.text()}`
NoFailure == [step |-> "none", status |-> 0, text |-> "", message |-> ""]
GraphFailure(step) ==
    CASE step = "getGraphToken" ->
           [step |-> step, status |-> 401, text |-> "invalid_client",
            message |-> "Token request failed: 401 invalid_client"]
      [] step = "createListItem" ->
           [step |-> step, status |-> 403, text |-> "accessDenied",
            message |-> "Create item failed: 403 accessDenied"]
      [] OTHER ->
           [step |-> step, status |-> 507, text |-> "quotaLimitReached",
            message |-> "Attach failed: 507 quotaLimitReached"]

IdleSubmit ==
    [pc |-> "idle", body |-> NoBody, token |-> "none", itemId |-> << >>,
     tempBase |-> FALSE, tempBatch |-> {}, batchMoved |-> FALSE,
     toAttach |-> {}, sigFile |-> FALSE, response |-> NoResponse,
     derivedFsOps |-> 0, validation |-> "none", cleanup |-> "none",
     attempted |-> {}, sigAttempted |-> FALSE, error |-> NoFailure,
     auth |-> NoAuth]

\* a 500 answer that forwards what the external service said
SubmitCatch_leaks(s) ==
    [s EXCEPT !.pc = "cleanup",
              !.response = [Response(500, s.error.message)
                              EXCEPT !.requestId = TRUE]]

\* catch (e) { return res.status(500).json({ message, requestId }) }
SubmitCatch(s) ==
    [s EXCEPT !.pc = "cleanup",
              !.response = [Response(500, "Internal server error")
                              EXCEPT !.requestId = TRUE]]

\* return res.status(400).json({ message })
Reject400(s, message) ==
    [s EXCEPT !.pc = "cleanup", !.response = Response(400, message)]

\* the signature step without validateInputForSignature
SignaturePhase_noSizeCheck(s) ==
    LET sig == s.body.signatureDataUrl IN
    IF ~TruthySignature(sig)
    THEN [s EXCEPT !.pc = "cleanup",
                   !.response = [Response(200, "") EXCEPT !.ok = TRUE,
                                                          !.itemId = s.itemId]]
    ELSE IF ~SignatureMatches(sig) THEN Reject400(s, "Invalid signature")
    ELSE [s EXCEPT !.pc = "writeSignature"]

\* lines 774-794, from the signature test to the next await or response
SignaturePhase(s) ==
    LET sig == s.body.signatureDataUrl IN
    IF ~TruthySignature(sig)
    THEN [s EXCEPT !.pc = "cleanup",
                   !.response = [Response(200, "") EXCEPT !.ok = TRUE,
                                                          !.itemId = s.itemId]]
    ELSE IF ~SignatureMatches(sig) THEN Reject400(s, "Invalid signature")
    ELSE IF ~validateInputForSignature(DecodedBytes(sig), MaxSignatureBytes)
         THEN Reject400(s, "Invalid signature")
    ELSE [s EXCEPT !.pc = "writeSignature"]

\* the batch step without  if (fs.existsSync(src))
BatchPhase_noExistsCheck(s) ==
    LET batchId == s.body.batchId IN
    IF ~TruthyString(batchId) THEN SignaturePhase(s)
    ELSE IF \/ ~BATCH_ID_REGEX(batchId.str)
            \/ ~InsideTmpRoot(PathResolve(TMP_ROOT, batchId.str))
         THEN Reject400(s, "Invalid batchId")
    ELSE [s EXCEPT !.derivedFsOps = @ + 1, !.pc = "mkdirBatch"]

\* lines 754-772, from the batchId test to the next await or response
BatchPhase(s) ==
    LET batchId == s.body.batchId IN
    IF ~TruthyString(batchId) THEN SignaturePhase(s)
    ELSE IF \/ ~BATCH_ID_REGEX(batchId.str)
            \/ ~InsideTmpRoot(PathResolve(TMP_ROOT, batchId.str))
         THEN Reject400(s, "Invalid batchId")
    ELSE LET t == [s EXCEPT !.derivedFsOps = @ + 1] IN
         IF batchId.str \in DOMAIN batches
         THEN [t EXCEPT !.pc = "mkdirBatch"]
         ELSE SignaturePhase(t)

\* await fsp.mkdir(tempBase) settles
MkdirTempBase(r) ==
    /\ sub[r].pc = "mkdirTempBase"
    /\ \E outcome \in {"ok", "unhandled", "errorHandler"} :
         sub' = [sub EXCEPT ![r] =
            CASE outcome = "ok" -> [@ EXCEPT !.pc = "getGraphToken",
                                             !.tempBase = TRUE]
              [] outcome = "unhandled" -> [@ EXCEPT !.pc = "unhandled"]
              [] OTHER -> [@ EXCEPT !.pc = "done",
                             !.response = Response(500, "Internal server error")]]
    /\ UNCHANGED <<env, today, ocr, batches, store, multerTmp, up>>

\* await getGraphToken() settles
getGraphToken(r) ==
    /\ sub[r].pc = "getGraphToken"
    /\ \E ok \in BOOLEAN :
         sub' = [sub EXCEPT ![r] =
            IF ~env.graphCreds THEN [@ EXCEPT !.pc = "createListItem",
                                              !.token = "null"]
            ELSE IF ok THEN [@ EXCEPT !.pc = "createListItem",
                                      !.token = "token"]
            ELSE SubmitCatch([@ EXCEPT
                                !.error = GraphFailure("getGraphToken")])]
    /\ UNCHANGED <<env, today, ocr, batches, store, multerTmp, up>>

\* await createListItem(token, fields || {}) settles, and the handler runs on
createListItem(r) ==
    /\ sub[r].pc = "createListItem"
    /\ LET s == sub[r]
           fields == IF s.body.fields.def THEN s.body.fields.obj ELSE << >>
           v == validateFields(fields)
       IN
       IF ~v.ok
       THEN /\ sub' = [sub EXCEPT ![r] =
                         SubmitCatch([s EXCEPT !.validation = "failed"])]
            /\ UNCHANGED store
       ELSE IF s.token = "null" \/ ~env.siteConfigured
       THEN /\ sub' = [sub EXCEPT ![r] =
                         BatchPhase([s EXCEPT !.validation = "passed",
                                              !.itemId = <<"mock", r>>])]
            /\ UNCHANGED store
       ELSE \E ok \in BOOLEAN :
              IF ok
              THEN /\ store' = [store EXCEPT !.records = @ \cup
                         {[id |-> <<"item", r>>, fields |-> fields, by |-> r]}]
                   /\ sub' = [sub EXCEPT ![r] =
                         BatchPhase([s EXCEPT !.validation = "passed",
                                              !.itemId = <<"item", r>>])]
              ELSE /\ sub' = [sub EXCEPT ![r] =
                         SubmitCatch([s EXCEPT !.validation = "passed",
                                !.error = GraphFailure("createListItem")])]
                   /\ UNCHANGED store
    /\ UNCHANGED <<env, today, ocr, batches, multerTmp, up>>

\* await fsp.mkdir(batchDir) settles
MkdirBatchDir(r) ==
    /\ sub[r].pc = "mkdirBatch"
    /\ \E ok \in BOOLEAN :
         sub' = [sub EXCEPT ![r] =
                   IF ok THEN [@ EXCEPT !.pc = "renameBatch"]
                   ELSE SubmitCatch(@)]
    /\ UNCHANGED <<env, today, ocr, batches, store, multerTmp, up>>

\* a rename that leaves the source directory in place
Moved_copies(b, id) == b

\* TMP_ROOT after fsp.rename(src, batchDir) has moved the directory away
Moved(b, id) == Remove(b, id)

\* await fsp.rename(src, batchDir) settles
RenameBatch(r) ==
    /\ sub[r].pc = "renameBatch"
    /\ LET id == sub[r].body.batchId.str
           s == [sub[r] EXCEPT !.derivedFsOps = @ + 1]
       IN
       \E ok \in BOOLEAN :
          IF ok /\ id \in DOMAIN batches
          THEN /\ batches' = Moved(batches, id)
               /\ sub' = [sub EXCEPT ![r] =
                            [s EXCEPT !.pc = "readdir", !.batchMoved = TRUE,
                                      !.tempBatch = batches[id]]]
          ELSE /\ sub' = [sub EXCEPT ![r] = SubmitCatch(s)]
               /\ UNCHANGED batches
    /\ UNCHANGED <<env, today, ocr, store, multerTmp, up>>

\* await fsp.readdir(batchDir) settles
Readdir(r) ==
    /\ sub[r].pc = "readdir"
    /\ \E ok \in BOOLEAN :
         sub' = [sub EXCEPT ![r] =
            IF ~ok THEN SubmitCatch(@)
            ELSE IF @.tempBatch = {} THEN SignaturePhase(@)
            ELSE [@ EXCEPT !.pc = "attach", !.toAttach = sub[r].tempBatch]]
    /\ UNCHANGED <<env, today, ocr, batches, store, multerTmp, up>>

\* uploadAttachment(token, itemId, name, filePath) returns without uploading
AttachmentMocked(s) == s.token = "null" \/ ~env.siteConfigured

\* a loop over the batch files that ends after its first file
AfterAttach_firstOnly(s) == SignaturePhase(s)

\* the for loop after one uploadAttachment has returned
AfterAttach(s) == IF s.toAttach = {} THEN SignaturePhase(s) ELSE s

\* await uploadAttachment(...) settles for one file of the batch
AttachFile(r) ==
    /\ sub[r].pc = "attach"
    /\ \E name \in sub[r].toAttach, ok \in BOOLEAN :
         LET s == [sub[r] EXCEPT !.toAttach = @ \ {name},
                                 !.attempted = @ \cup {name}]
             next == AfterAttach(s)
         IN
         IF AttachmentMocked(s)
         THEN /\ sub' = [sub EXCEPT ![r] = next]
              /\ UNCHANGED store
         ELSE IF ok
         THEN /\ store' = [store EXCEPT !.attachments = @ \cup
                    {[item |-> s.itemId, name |-> name, by |-> r]}]
              /\ sub' = [sub EXCEPT ![r] = next]
         ELSE /\ sub' = [sub EXCEPT ![r] =
                   SubmitCatch([s EXCEPT
                                  !.error = GraphFailure("uploadAttachment")])]
              /\ UNCHANGED store
    /\ UNCHANGED <<env, today, ocr, batches, multerTmp, up>>

SignatureName == [stem |-> "signature", ext |-> ".png"]

\* await fsp.writeFile(tmp, safeContent) settles
WriteSignature(r) ==
    /\ sub[r].pc = "writeSignature"
    /\ \E ok \in BOOLEAN :
         sub' = [sub EXCEPT ![r] =
                   IF ok THEN [@ EXCEPT !.pc = "attachSignature",
                                        !.sigFile = TRUE]
                   ELSE SubmitCatch(@)]
    /\ UNCHANGED <<env, today, ocr, batches, store, multerTmp, up>>

\* await uploadAttachment(token, itemId, "signature.png", tmp) settles
AttachSignature(r) ==
    /\ sub[r].pc = "attachSignature"
    /\ LET s == [sub[r] EXCEPT !.sigAttempted = TRUE]
           done == [s EXCEPT !.pc = "cleanup",
                      !.response = [Response(200, "") EXCEPT !.ok = TRUE,
                                                        !.itemId = s.itemId]]
       IN
       \E ok \in BOOLEAN :
         IF AttachmentMocked(s)
         THEN /\ sub' = [sub EXCEPT ![r] = done]
              /\ UNCHANGED store
         ELSE IF ok
         THEN /\ store' = [store EXCEPT !.attachments = @ \cup
                    {[item |-> s.itemId, name |-> SignatureName, by |-> r]}]
              /\ sub' = [sub EXCEPT ![r] = done]
         ELSE /\ sub' = [sub EXCEPT ![r] =
                   SubmitCatch([s EXCEPT
                                  !.error = GraphFailure("uploadAttachment")])]
              /\ UNCHANGED store
    /\ UNCHANGED <<env, today, ocr, batches, multerTmp, up>>

\* a finally block that lets the error of fsp.rm out: the handler rejects
\* and the framework answers 500 if no response was sent
CleanupFailed_rethrows(s) ==
    [s EXCEPT !.pc = "done", !.cleanup = "failed",
              !.response = Response(500, "Internal server error")]

\* catch (e) { if (e && e.code !== 'ENOENT') console.warn(...) }
CleanupFailed(s) == [s EXCEPT !.pc = "done", !.cleanup = "failed"]

\* finally: await fsp.rm(tempBase, { recursive, force }) settles
SubmitCleanup(r) ==
    /\ sub[r].pc = "cleanup"
    /\ \E ok \in BOOLEAN :
         sub' = [sub EXCEPT ![r] =
            IF ok THEN [@ EXCEPT !.pc = "done", !.cleanup = "ok",
                                 !.tempBase = FALSE, !.tempBatch = {},
                                 !.batchMoved = FALSE, !.sigFile = FALSE]
            ELSE CleanupFailed(@)]
    /\ UNCHANGED <<env, today, ocr, batches, store, multerTmp, up>>


(***************************************************************************)
(* The submit requests a client can send                                   *)
(***************************************************************************)
ExistingBatch == <<"b", "a", "t", "c", "h", "-", "1", "-", "a">>
AbsentBatch == <<"b", "a", "t", "c", "h", "-", "2", "-", "b">>

BatchIdInputs ==
    { NoString,
      StringOf(<< >>),
      StringOf(ExistingBatch),
      StringOf(AbsentBatch),
      StringOf(<<".", ".", "/", ".", ".", "/", "e", "t", "c">>),
      StringOf(<<"t", "e", "s", "t", "-", "b", "a", "t", "c", "h", "-",
                 "1", "2", "3">>),
      StringOf(<<"b", "a", "t", "c", "h", "-", "1", "-">>) }

SignatureInputs ==
    { NoSignature,
      Signature("", 0, 0),
      Signature(PngPrefix, 4, 4),
      Signature(PngPrefix, 0, 0),
      Signature("data:image/jpeg;base64,", 4, 4),
      Signature(PngPrefix, 1, 0),
      Signature(PngPrefix, 136534, 136534),
      Signature(PngPrefix, 136536, 136536) }

ManualFields ==
    { [def |-> FALSE, obj |-> << >>],
      [def |-> TRUE, obj |-> << Entry("vendor", Str("Test Store")),
                                Entry("total", Str("12.34")),
                                Entry("transactionDate", Str("2024-01-01")) >>],
      [def |-> TRUE, obj |-> << Entry("vendor", Str("Test Store")),
                                Entry("approved", Str("yes")) >>],
      [def |-> TRUE, obj |-> << Entry("total", Num(1234)) >>],
      [def |-> TRUE, obj |-> << Entry("constructor", Str("x")) >>] }

\* the records analyzeReceipt returns for a succeeded poll, as the client
\* receives them in the upload response
AnalysisFields ==
    { [def |-> TRUE, obj |-> Json(_extractReceiptData(p, today))] :
        p \in Payloads }

\* a submission of the batch the client uploaded
PlainSubmission(f, sig, id) ==
    /\ f \in ManualFields /\ f.def
    /\ sig \in {NoSignature, Signature(PngPrefix, 4, 4)}
    /\ id = StringOf(ExistingBatch)

\* a client that submits the batch it uploaded, waits for the answer and
\* submits the same batchId again
Resubmission(r, f, sig, id) ==
    /\ PlainSubmission(f, sig, id)
    /\ \A q \in DOMAIN sub \ {r} : sub[q].pc \in {"idle", "done", "unhandled"}

\* the request passes requireAuth and the handler starts
SubmitRequest(r) ==
    /\ sub[r].pc = EntryPc
    /\ \E f \in ManualFields \cup AnalysisFields,
          sig \in SignatureInputs, id \in BatchIdInputs :
         /\ env.universe = "resubmit" => Resubmission(r, f, sig, id)
         /\ env.universe \in {"auth", "race"} => PlainSubmission(f, sig, id)
         /\ sub' = [sub EXCEPT ![r] =
                   [@ EXCEPT !.pc = "mkdirTempBase",
                      !.body = [fields |-> f,
                                origin |-> IF f \in AnalysisFields
                                           THEN "analysis" ELSE "manual",
                                signatureDataUrl |-> sig,
                                batchId |-> id]]]
    /\ UNCHANGED <<env, today, ocr, batches, store, multerTmp, up>>

\* requireAuth on a submit request
SubmitAuth(r) ==
    /\ sub[r].pc = "idle"
    /\ \E header \in AuthorizationHeaders :
         sub' = [sub EXCEPT ![r] =
                   Authenticate(@, header,
                                Response(401, "Missing bearer token"))]
    /\ UNCHANGED <<env, today, ocr, batches, store, multerTmp, up>>

\* validateAADToken(token) settles for a submit request
SubmitVerified(r) ==
    /\ sub[r].pc = "validateAADToken"
    /\ \E verdict \in Verdicts(sub[r].auth.header.rest) :
         sub' = [sub EXCEPT ![r] =
                   Verified(@, verdict, Response(401, "Unauthorized"))]
    /\ UNCHANGED <<env, today, ocr, batches, store, multerTmp, up>>

\* crypto.randomUUID() values, and the storage names made of them
Uuids == <<"uuid-1", "uuid-2", "uuid-3", "uuid-4", "uuid-5", "uuid-6">>
StorageName(i) == [stem |-> Uuids[i], ext |-> ".png"]

InitSubmit ==
    /\ env \in [ocrConfigured : {FALSE}, universe : {"submit"},
                jitters : {{0}}, authBypass : {FALSE},
                graphCreds : BOOLEAN, siteConfigured : BOOLEAN]
    /\ today = Dates[1]
    /\ ocr = << >>
    /\ \E n \in 1..MaxBatchFiles :
         batches = [id \in {ExistingBatch} |-> {StorageName(i) : i \in 1..n}]
    /\ store = EmptyStore
    /\ sub = [r \in {"s1"} |-> IdleSubmit]
    /\ multerTmp = {}
    /\ up = << >>

NextSubmit ==
    \/ \E r \in DOMAIN sub : SubmitRequest(r)
    \/ \E r \in DOMAIN sub : MkdirTempBase(r)
    \/ \E r \in DOMAIN sub : getGraphToken(r)
    \/ \E r \in DOMAIN sub : createListItem(r)
    \/ \E r \in DOMAIN sub : MkdirBatchDir(r)
    \/ \E r \in DOMAIN sub : RenameBatch(r)
    \/ \E r \in DOMAIN sub : Readdir(r)
    \/ \E r \in DOMAIN sub : AttachFile(r)
    \/ \E r \in DOMAIN sub : WriteSignature(r)
    \/ \E r \in DOMAIN sub : AttachSignature(r)
    \/ \E r \in DOMAIN sub : SubmitCleanup(r)


(***************************************************************************)
(* server.js: POST /api/upload                                             *)
(***************************************************************************)
MulterNames == <<"m1", "m2", "m3", "m4", "m5", "m6">>
OriginalNames == <<"receipt1.png", "receipt2.png", "receipt3.png",
                   "receipt4.png", "receipt5.png", "receipt6.png">>

\* req.files[i] as multer leaves it: f.path exists under TMP_ROOT
UploadedFile(i) ==
    [originalname |-> OriginalNames[i], path |-> MulterNames[i],
     secureFilename |-> StorageName(i)]

\* `batch-${Date.now()}-${Math.random().toString(36).slice(2)}`
GenerateBatchId(clock, suffix) ==
    <<"b", "a", "t", "c", "h", "-">> \o clock \o <<"-">> \o suffix

ClockValues == { <<"1", "7">> }
\* a request that is handled one millisecond later
LaterClock == <<"1", "8">>
\* the values of Date.now() that the requests of a run can read
Clocks ==
    IF env.universe = "pair" THEN ClockValues \cup {LaterClock}
    ELSE ClockValues
\* the multer file a request gets for its k-th part: requests do not share
\* temporary names or UUIDs
FileIndex(u, k) == IF u = "u2" THEN MaxUploadFiles + k ELSE k
\* Math.random().toString(36).slice(2): empty when Math.random() returns 0
RandomSuffixes == { <<"k", "7">>, << >> }

\* a message is the sequence of its phrases
NoUploadResponse ==
    [status |-> 0, message |-> << >>, results |-> << >>, fields |-> << >>,
     batchId |-> << >>]

\* request: the file parts of the body; seen: how many of them multer has
\* taken; written: the parts multer has opened a file for under TMP_ROOT;
\* handler: the route handler has been entered
IdleUpload ==
    [pc |-> "idle", request |-> << >>, seen |-> 0, written |-> {},
     handler |-> FALSE, files |-> << >>, batchId |-> << >>, i |-> 0,
     failedAt |-> "none", response |-> NoUploadResponse, auth |-> NoAuth]

\* the data of the .catch branch of the per-file promise
OcrFailedData ==
    << Entry("vendor", Str("")), Entry("total", Str("")),
       Entry("transactionDate", Str("")),
       Entry("error", Str("OCR processing failed")) >>

\* every entry carrying the data of the first file's analysis
OcrPromiseValue_shared(u, k) ==
    LET f == up[u].files[k]
        o == ocr[<<u, 1>>]
    IN [file |-> f.originalname, secureFile |-> f.secureFilename,
        data |-> IF o.out = "resolved" THEN o.data ELSE OcrFailedData]

\* the value the per-file promise of file k resolves with
OcrPromiseValue(u, k) ==
    LET f == up[u].files[k]
        o == ocr[<<u, k>>]
    IN [file |-> f.originalname, secureFile |-> f.secureFilename,
        data |-> IF o.out = "resolved" THEN o.data ELSE OcrFailedData]

\* the last entry taken as the primary one
primaryResult_last(ocrResults) == ocrResults[Len(ocrResults)]

\* ocrResults.find(r => !r.data.error) || ocrResults[0]
primaryResult(ocrResults) ==
    IF \E k \in 1..Len(ocrResults) : ~Truthy(Get(ocrResults[k].data, "error"))
    THEN ocrResults[CHOOSE k \in 1..Len(ocrResults) :
            /\ ~Truthy(Get(ocrResults[k].data, "error"))
            /\ \A j \in 1..(k - 1) : Truthy(Get(ocrResults[j].data, "error"))]
    ELSE ocrResults[1]

\* res.status(500).json({ message: "Upload processing failed" })
UploadFailed(s) ==
    [s EXCEPT !.pc = "done",
              !.response = [NoUploadResponse EXCEPT !.status = 500,
                               !.message = <<"Upload processing failed">>]]

\* the catch block from file j on, up to its next await or the response
UploadCatch(s, tmp, j) ==
    IF \E k \in j..Len(s.files) : s.files[k].path \in tmp
    THEN [s EXCEPT !.pc = "unlink",
            !.i = CHOOSE k \in j..Len(s.files) :
                    /\ s.files[k].path \in tmp
                    /\ \A m \in j..(k - 1) : s.files[m].path \notin tmp]
    ELSE UploadFailed(s)

\* the handler without  if (files.length === 0) return res.status(400)...
UploadHandler_noEmptyCheck(s, files, id) ==
    [s EXCEPT !.handler = TRUE, !.pc = "mkdir", !.files = files,
              !.batchId = id]

\* the route handler from its entry to its first await or its response
UploadHandler(s, files, id) ==
    IF Len(files) = 0
    THEN [s EXCEPT !.handler = TRUE, !.pc = "done",
            !.response = [NoUploadResponse EXCEPT !.status = 400,
                             !.message = <<"No files uploaded">>]]
    ELSE [s EXCEPT !.handler = TRUE, !.pc = "mkdir", !.files = files,
                   !.batchId = id]

\* multer has stored the files of the request and the handler starts
UploadRequest(u) ==
    /\ up[u].pc = "idle"
    /\ \E n \in 0..MaxUploadFiles, clock \in Clocks,
          suffix \in RandomSuffixes :
         LET files == [k \in 1..n |-> UploadedFile(FileIndex(u, k))] IN
         /\ multerTmp' = multerTmp \cup {files[k].path : k \in 1..n}
         /\ up' = [up EXCEPT ![u] =
                     UploadHandler(@, files, GenerateBatchId(clock, suffix))]
    /\ UNCHANGED <<env, today, ocr, batches, store, sub>>

\* await fs.promises.mkdir(batchDir, { recursive: true }) settles
MkdirBatch(u) ==
    /\ up[u].pc = "mkdir"
    /\ \E ok \in BOOLEAN :
         IF ok
         THEN /\ batches' = IF up[u].batchId \in DOMAIN batches THEN batches
                            ELSE Put(batches, up[u].batchId, {})
              /\ up' = [up EXCEPT ![u] = [@ EXCEPT !.pc = "rename", !.i = 1]]
         ELSE /\ up' = [up EXCEPT ![u] =
                          UploadCatch([@ EXCEPT !.failedAt = "mkdir"],
                                      multerTmp, 1)]
              /\ UNCHANGED batches
    /\ UNCHANGED <<env, today, ocr, store, sub, multerTmp>>

\* const secureFilename = f.secureFilename || `${crypto.randomUUID()}.tmp`
DestName(f) ==
    IF f.secureFilename.stem # "" THEN f.secureFilename
    ELSE [stem |-> "uuid-0", ext |-> ".tmp"]

\* an analysis that is called whether or not the rename resolved
AfterRename_eager(o, ok) == analyzeReceipt(o)

\* ocrService.analyzeReceipt(dest) follows  await fs.promises.rename(...)
AfterRename(o, ok) == IF ok THEN analyzeReceipt(o) ELSE o

\* await fs.promises.rename(f.path, dest) settles for file i; on success
\* analyzeReceipt(dest) is called and the loop goes on
RenameFile(u) ==
    /\ up[u].pc = "rename"
    /\ LET s == up[u]
           f == s.files[s.i]
       IN
       \E ok \in BOOLEAN :
         IF ok /\ s.batchId \in DOMAIN batches
         THEN /\ multerTmp' = multerTmp \ {f.path}
              /\ batches' = [batches EXCEPT ![s.batchId] =
                               @ \cup {DestName(f)}]
              /\ ocr' = [ocr EXCEPT ![<<u, s.i>>] = AfterRename(@, TRUE)]
              /\ up' = [up EXCEPT ![u] =
                          IF s.i = Len(s.files)
                          THEN [s EXCEPT !.pc = "awaitAll"]
                          ELSE [s EXCEPT !.i = @ + 1]]
         ELSE /\ up' = [up EXCEPT ![u] =
                          UploadCatch([s EXCEPT !.failedAt = "rename"],
                                      multerTmp, 1)]
              /\ ocr' = [ocr EXCEPT ![<<u, s.i>>] = AfterRename(@, FALSE)]
              /\ UNCHANGED <<multerTmp, batches>>
    /\ UNCHANGED <<env, today, store, sub>>

\* await Promise.all(processingPromises) settles and the response is sent
AwaitAll(u) ==
    /\ up[u].pc = "awaitAll"
    /\ \A k \in 1..Len(up[u].files) : ocr[<<u, k>>].pc = "done"
    /\ LET ocrResults == [k \in 1..Len(up[u].files) |-> OcrPromiseValue(u, k)]
       IN up' = [up EXCEPT ![u] =
                   [@ EXCEPT !.pc = "done",
                      !.response = [NoUploadResponse EXCEPT
                                      !.status = 200,
                                      !.results = ocrResults,
                                      !.fields = primaryResult(ocrResults).data,
                                      !.batchId = up[u].batchId]]]
    /\ UNCHANGED <<env, today, ocr, batches, store, sub, multerTmp>>

\* await fs.promises.unlink(f.path) settles in the catch block
UnlinkTemp(u) ==
    /\ up[u].pc = "unlink"
    /\ LET s == up[u]
           f == s.files[s.i]
       IN
       \E ok \in BOOLEAN :
         IF ok
         THEN /\ multerTmp' = multerTmp \ {f.path}
              /\ up' = [up EXCEPT ![u] =
                          UploadCatch(s, multerTmp \ {f.path}, s.i + 1)]
         ELSE /\ up' = [up EXCEPT ![u] = UploadFailed(s)]
              /\ UNCHANGED multerTmp
    /\ UNCHANGED <<env, today, ocr, batches, store, sub>>

(***************************************************************************)
(* secureUpload.js: the multer stage in front of the upload handler        *)
(***************************************************************************)
ALLOWED_EXTENSIONS ==
    { <<".", "j", "p", "g">>, <<".", "j", "p", "e", "g">>,
      <<".", "p", "n", "g">>, <<".", "g", "i", "f">>,
      <<".", "p", "d", "f">> }
ALLOWED_MIME_TYPES ==
    {"image/jpeg", "image/png", "image/gif", "application/pdf"}
MAX_FILE_SIZE == 10 * 1024 * 1024
MAX_FILES == 5

UpperCase == <<"A", "B", "C", "D", "E", "F", "G", "H", "I", "J", "K", "L", "M",
               "N", "O", "P", "Q", "R", "S", "T", "U", "V", "W", "X", "Y", "Z">>
LowerCase == <<"a", "b", "c", "d", "e", "f", "g", "h", "i", "j", "k", "l", "m",
               "n", "o", "p", "q", "r", "s", "t", "u", "v", "w", "x", "y", "z">>

\* String.prototype.toLowerCase on a string of characters
toLowerCase(str) ==
    [i \in 1..Len(str) |->
        IF \E j \in 1..26 : UpperCase[j] = str[i]
        THEN LowerCase[CHOOSE j \in 1..26 : UpperCase[j] = str[i]]
        ELSE str[i]]

\* the last position of character c in str, 0 when there is none
LastIndexOf(str, c) ==
    IF \E i \in 1..Len(str) : str[i] = c
    THEN CHOOSE i \in 1..Len(str) :
            str[i] = c /\ \A j \in (i + 1)..Len(str) : str[j] # c
    ELSE 0

\* str without its trailing "/" characters
TrimSeparators(str) ==
    IF \E i \in 1..Len(str) : str[i] # "/"
    THEN SubSeq(str, 1, CHOOSE i \in 1..Len(str) :
                           str[i] # "/" /\ \A j \in (i + 1)..Len(str) : str[j] = "/")
    ELSE << >>

\* path.extname (POSIX): from the last "." of the last segment to its end;
\* empty when the segment has no ".", starts with its only ".", or is ".."
extname(p) ==
    LET trimmed == TrimSeparators(p)
        base == SubSeq(trimmed, LastIndexOf(trimmed, "/") + 1, Len(trimmed))
        dot == LastIndexOf(base, ".")
    IN IF dot <= 1 \/ base = <<".", ".">> THEN << >>
       ELSE SubSeq(base, dot, Len(base))

\* an Error, or a MulterError with its code
Err(message) == [multer |-> FALSE, code |-> "", message |-> message]
MulterError(code) == [multer |-> TRUE, code |-> code, message |-> <<code>>]
NoError == [multer |-> FALSE, code |-> "", message |-> << >>]

\* a sanitizeFilename that keeps the name the client sent in front of the
\* UUID
sanitizeFilename_keepsName(originalname, uuid) ==
    LET ext == toLowerCase(extname(originalname)) IN
    IF originalname = << >> \/ ext \notin ALLOWED_EXTENSIONS
    THEN [ok |-> FALSE, error |-> Err(<<"Invalid", "filename">>),
          name |-> [stem |-> "", ext |-> << >>]]
    ELSE [ok |-> TRUE, error |-> NoError,
          name |-> [stem |-> <<originalname, uuid>>, ext |-> ext]]

\* sanitizeFilename(originalname): the storage name, or the Error thrown
sanitizeFilename(originalname, uuid) ==
    LET ext == toLowerCase(extname(originalname)) IN
    IF originalname = << >>
    THEN [ok |-> FALSE, error |-> Err(<<"Invalid", "filename">>),
          name |-> [stem |-> "", ext |-> << >>]]
    ELSE IF ext \notin ALLOWED_EXTENSIONS
    THEN [ok |-> FALSE,
          error |-> Err(<<"File type">> \o ext \o <<"not allowed">>),
          name |-> [stem |-> "", ext |-> << >>]]
    ELSE [ok |-> TRUE, error |-> NoError, name |-> [stem |-> uuid, ext |-> ext]]

validateFileContent(file) == file.mimetype \in ALLOWED_MIME_TYPES

\* a fileFilter that lets every file through
fileFilter_acceptsAll(file, uuid) ==
    [ok |-> TRUE, error |-> NoError,
     name |-> [stem |-> uuid, ext |-> toLowerCase(extname(file.originalname))]]

\* fileFilter: cb(null, true) with file.secureFilename set, or cb(error, false)
fileFilter(file, uuid) ==
    IF ~validateFileContent(file)
    THEN [ok |-> FALSE, error |-> Err(<<"File type", "not allowed">>),
          name |-> [stem |-> "", ext |-> << >>]]
    ELSE sanitizeFilename(file.originalname, uuid)

\* err.message.includes(phrase)
Includes(message, phrase) == \E i \in 1..Len(message) : message[i] = phrase

UploadError(status, message) ==
    [NoUploadResponse EXCEPT !.status = status, !.message = message]

\* handleUploadErrors without its LIMIT_FILE_COUNT case
handleUploadErrors_noCountCase(err) ==
    IF err.multer
    THEN CASE err.code = "LIMIT_FILE_SIZE" ->
                UploadError(413, <<"File", "too large", "Maximum size is 10MB">>)
           [] err.code = "LIMIT_UNEXPECTED_FILE" ->
                UploadError(400, <<"Unexpected file field">>)
           [] OTHER -> UploadError(400, <<"File upload error: ">> \o err.message)
    ELSE IF Includes(err.message, "not allowed") \/ Includes(err.message, "Invalid")
         THEN UploadError(400, err.message)
         ELSE UploadError(500, err.message)

\* handleUploadErrors(err, req, res, next); an error it passes on gets the
\* 500 of the framework
handleUploadErrors(err) ==
    IF err.multer
    THEN CASE err.code = "LIMIT_FILE_SIZE" ->
                UploadError(413, <<"File", "too large", "Maximum size is 10MB">>)
           [] err.code = "LIMIT_FILE_COUNT" ->
                UploadError(413, <<"Too many files", "Maximum is 5 files">>)
           [] err.code = "LIMIT_UNEXPECTED_FILE" ->
                UploadError(400, <<"Unexpected file field">>)
           [] OTHER -> UploadError(400, <<"File upload error: ">> \o err.message)
    ELSE IF Includes(err.message, "not allowed") \/ Includes(err.message, "Invalid")
         THEN UploadError(400, err.message)
         ELSE UploadError(500, err.message)

\* one file part of a multipart body, all under the field "files"
Part(originalname, mimetype, size) ==
    [originalname |-> originalname, mimetype |-> mimetype, size |-> size]

PlainFile == Part(<<"r", "e", "c", "e", "i", "p", "t", ".", "j", "p", "g">>, "image/jpeg", 1024)
ExecutableFile ==
    Part(<<"m", "a", "l", "w", "a", "r", "e", ".", "e", "x", "e">>, "application/octet-stream", 8)
WrongMimeFile == Part(<<"n", "o", "t", "e", "s", ".", "p", "n", "g">>, "text/plain", 1024)
WrongExtFile == Part(<<"p", "h", "o", "t", "o", ".", "E", "X", "E">>, "image/png", 1024)
LargeFile == Part(<<"l", "a", "r", "g", "e", ".", "j", "p", "g">>, "image/jpeg", 15 * 1024 * 1024)
EmptyFile == Part(<<"e", "m", "p", "t", "y", ".", "p", "n", "g">>, "image/png", 0)
TraversalFile == Part(<<".", ".", "/", "x", ".", "p", "n", "g">>, "image/png", 1024)
WindowsTraversalFile == Part(<<".", ".", "\\", "x", ".", "P", "N", "G">>, "image/png", 1024)
HiddenFile == Part(<<".", "h", "i", "d", "d", "e", "n", ".", "p", "n", "g">>, "image/png", 1024)
NoExtTraversalFile ==
    Part(<<".", ".", "/", ".", ".", "/", ".", ".", "/", "e", "t", "c", "/", "p", "a", "s", "s", "w", "d">>,
         "image/png", 1024)

OddFiles ==
    { ExecutableFile, WrongMimeFile, WrongExtFile, LargeFile, EmptyFile,
      TraversalFile, WindowsTraversalFile, HiddenFile, NoExtTraversalFile }

\* a multipart body arrives: up to MaxParts file parts, at most MaxOddFiles of
\* them other than a plain receipt image
IntakeRequest(u) ==
    /\ up[u].pc = EntryPc
    /\ \E n \in 0..MaxParts :
         \E odd \in {P \in SUBSET (1..n) : Cardinality(P) <= MaxOddFiles} :
           \E kind \in [odd -> OddFiles] :
             /\ env.universe = "auth" => (n <= MaxAuthFiles /\ odd = {})
             /\ up' = [up EXCEPT ![u] =
                      [@ EXCEPT !.pc = "multer",
                         !.request = [k \in 1..n |->
                                        IF k \in odd THEN kind[k]
                                        ELSE PlainFile]]]
    /\ UNCHANGED <<env, today, ocr, batches, store, sub, multerTmp>>

\* multer gives up on the request: the files it had stored are removed (or
\* the removal fails), the error goes to handleUploadErrors, the route
\* handler is skipped
MulterAbort(s, err) ==
    [s EXCEPT !.pc = "done", !.files = << >>,
              !.response = handleUploadErrors(err)]

\* multer takes the next file part: the files limit, then fileFilter, then
\* the part is streamed to a file under TMP_ROOT up to the fileSize limit
MulterFile(u) ==
    /\ up[u].pc = "multer"
    /\ up[u].seen < Len(up[u].request)
    /\ LET s == [up[u] EXCEPT !.seen = @ + 1]
           k == s.seen
           part == s.request[k]
           stored == {s.files[j].path : j \in 1..Len(s.files)}
       IN
       IF k > MAX_FILES
       THEN /\ \E removed \in BOOLEAN :
                 multerTmp' = IF removed THEN multerTmp \ stored ELSE multerTmp
            /\ up' = [up EXCEPT ![u] =
                        MulterAbort(s, MulterError("LIMIT_FILE_COUNT"))]
       ELSE
         LET verdict == fileFilter(part, Uuids[k]) IN
         IF ~verdict.ok
         THEN /\ \E removed \in BOOLEAN :
                   multerTmp' = IF removed THEN multerTmp \ stored
                                ELSE multerTmp
              /\ up' = [up EXCEPT ![u] = MulterAbort(s, verdict.error)]
         ELSE IF part.size > MAX_FILE_SIZE
         THEN /\ \E removed \in BOOLEAN :
                   multerTmp' = IF removed THEN multerTmp \ stored
                                ELSE multerTmp \cup {MulterNames[k]}
              /\ up' = [up EXCEPT ![u] =
                          MulterAbort([s EXCEPT !.written = @ \cup {k}],
                                      MulterError("LIMIT_FILE_SIZE"))]
         ELSE /\ multerTmp' = multerTmp \cup {MulterNames[k]}
              /\ up' = [up EXCEPT ![u] =
                          [s EXCEPT !.written = @ \cup {k},
                             !.files = Append(@,
                                [originalname |-> part.originalname,
                                 mimetype |-> part.mimetype,
                                 size |-> part.size,
                                 part |-> k,
                                 path |-> MulterNames[k],
                                 secureFilename |-> verdict.name])]]
    /\ UNCHANGED <<env, today, ocr, batches, store, sub>>

\* the body has ended without an error: req.files is set and the route
\* handler is entered
MulterDone(u) ==
    /\ up[u].pc = "multer"
    /\ up[u].seen = Len(up[u].request)
    /\ \E clock \in ClockValues, suffix \in RandomSuffixes :
         up' = [up EXCEPT ![u] =
                  UploadHandler(@, up[u].files,
                                GenerateBatchId(clock, suffix))]
    /\ UNCHANGED <<env, today, ocr, batches, store, sub, multerTmp>>


\* requireAuth on an upload request
UploadAuth(u) ==
    /\ up[u].pc = "idle"
    /\ \E header \in AuthorizationHeaders :
         up' = [up EXCEPT ![u] =
                  Authenticate(@, header,
                               UploadError(401, <<"Missing bearer token">>))]
    /\ UNCHANGED <<env, today, ocr, batches, store, sub, multerTmp>>

\* validateAADToken(token) settles for an upload request
UploadVerified(u) ==
    /\ up[u].pc = "validateAADToken"
    /\ \E verdict \in Verdicts(up[u].auth.header.rest) :
         up' = [up EXCEPT ![u] =
                  Verified(@, verdict, UploadError(401, <<"Unauthorized">>))]
    /\ UNCHANGED <<env, today, ocr, batches, store, sub, multerTmp>>

InitUpload ==
    /\ env \in [ocrConfigured : BOOLEAN, universe : {"upload"},
                jitters : {{0}}, authBypass : {FALSE},
                graphCreds : {FALSE}, siteConfigured : {FALSE}]
    /\ today = Dates[1]
    /\ up = [u \in {"u1"} |-> IdleUpload]
    /\ ocr = [a \in (DOMAIN up) \X (1..MaxUploadFiles) |-> IdleOcr]
    /\ batches = << >>
    /\ store = EmptyStore
    /\ sub = << >>
    /\ multerTmp = {}

NextUpload ==
    \/ \E u \in DOMAIN up : UploadRequest(u)
    \/ \E u \in DOMAIN up : MkdirBatch(u)
    \/ \E u \in DOMAIN up : RenameFile(u)
    \/ \E u \in DOMAIN up : AwaitAll(u)
    \/ \E u \in DOMAIN up : UnlinkTemp(u)
    \/ \E a \in DOMAIN ocr : ReadFile(a)
    \/ \E a \in DOMAIN ocr : _startAnalysis(a)
    \/ \E a \in DOMAIN ocr : _pollForResults(a)
    \/ \E a \in DOMAIN ocr : _delay(a)

vars == <<env, today, ocr, batches, store, sub, multerTmp, up>>

InitOcr ==
    /\ env \in [ocrConfigured : BOOLEAN, universe : {"full"},
                jitters : {{0, 999}}, authBypass : {FALSE},
                graphCreds : {FALSE}, siteConfigured : {FALSE}]
    /\ today = Dates[1]
    /\ ocr = [a \in {"direct"} |-> IdleOcr]
    /\ batches = << >>
    /\ store = EmptyStore
    /\ sub = << >>
    /\ multerTmp = {}
    /\ up = << >>

NextOcr ==
    \/ \E a \in DOMAIN ocr : CallAnalyze(a)
    \/ \E a \in DOMAIN ocr : ReadFile(a)
    \/ \E a \in DOMAIN ocr : _startAnalysis(a)
    \/ \E a \in DOMAIN ocr : _pollForResults(a)
    \/ \E a \in DOMAIN ocr : _delay(a)
    \/ Tick

SpecOcr == InitOcr /\ [][NextOcr]_vars

\* the timer of _delay fires, and a poll request settles: _makeRequest
\* aborts it after requestTimeout
SpecOcrLive ==
    /\ SpecOcr
    /\ \A a \in {"direct"} : /\ WF_vars(_delay(a))
                             /\ WF_vars(_pollForResults(a))

\* every outbound request completes or is aborted by its timeout, and the
\* read of the file settles
SpecAnalyzeLive ==
    /\ SpecOcrLive
    /\ \A a \in {"direct"} : /\ WF_vars(ReadFile(a))
                             /\ WF_vars(_startAnalysis(a))

SpecSubmit == InitSubmit /\ [][NextSubmit]_vars

\* one step of the handler of request r: the operation it awaits settles
SubmitStep(r) ==
    \/ MkdirTempBase(r)
    \/ getGraphToken(r)
    \/ createListItem(r)
    \/ MkdirBatchDir(r)
    \/ RenameBatch(r)
    \/ Readdir(r)
    \/ AttachFile(r)
    \/ WriteSignature(r)
    \/ AttachSignature(r)
    \/ SubmitCleanup(r)

\* every file system call and every request to the store settles
SpecSubmitLive ==
    /\ SpecSubmit
    /\ \A r \in {"s1"} : WF_vars(SubmitStep(r))

SpecUpload == InitUpload /\ [][NextUpload]_vars

\* two submit requests of one client, the second sent after the first ended
InitResubmit ==
    /\ env \in [ocrConfigured : {FALSE}, universe : {"resubmit"},
                jitters : {{0}}, authBypass : {FALSE},
                graphCreds : BOOLEAN, siteConfigured : BOOLEAN]
    /\ today = Dates[1]
    /\ ocr = << >>
    /\ \E n \in 1..MaxBatchFiles :
         batches = [id \in {ExistingBatch} |-> {StorageName(i) : i \in 1..n}]
    /\ store = EmptyStore
    /\ sub = [r \in {"s1", "s2"} |-> IdleSubmit]
    /\ multerTmp = {}
    /\ up = << >>

SpecResubmit == InitResubmit /\ [][NextSubmit]_vars

\* two upload requests that the server handles concurrently, with the
\* analysis service not configured
InitPair ==
    /\ env \in [ocrConfigured : {FALSE}, universe : {"pair"},
                jitters : {{0}}, authBypass : {FALSE},
                graphCreds : {FALSE}, siteConfigured : {FALSE}]
    /\ today = Dates[1]
    /\ up = [u \in {"u1", "u2"} |-> IdleUpload]
    /\ ocr = [a \in (DOMAIN up) \X (1..MaxUploadFiles) |-> IdleOcr]
    /\ batches = << >>
    /\ store = EmptyStore
    /\ sub = << >>
    /\ multerTmp = {}

NextPair ==
    \/ \E u \in DOMAIN up : UploadRequest(u)
    \/ \E u \in DOMAIN up : MkdirBatch(u)
    \/ \E u \in DOMAIN up : RenameFile(u)
    \/ \E u \in DOMAIN up : AwaitAll(u)
    \/ \E u \in DOMAIN up : UnlinkTemp(u)

SpecPair == InitPair /\ [][NextPair]_vars

\* two submit requests with the same batchId that the server handles
\* concurrently
InitRace ==
    /\ env \in [ocrConfigured : {FALSE}, universe : {"race"},
                jitters : {{0}}, authBypass : {FALSE},
                graphCreds : {TRUE}, siteConfigured : BOOLEAN]
    /\ today = Dates[1]
    /\ ocr = << >>
    /\ \E n \in 1..MaxBatchFiles :
         batches = [id \in {ExistingBatch} |-> {StorageName(i) : i \in 1..n}]
    /\ store = EmptyStore
    /\ sub = [r \in {"s1", "s2"} |-> IdleSubmit]
    /\ multerTmp = {}
    /\ up = << >>

SpecRace == InitRace /\ [][NextSubmit]_vars

\* the upload route from the multipart body on, with the analysis service
\* not configured
InitIntake ==
    /\ env \in [ocrConfigured : {FALSE}, universe : {"intake"},
                jitters : {{0}}, authBypass : {FALSE},
                graphCreds : {FALSE}, siteConfigured : {FALSE}]
    /\ today = Dates[1]
    /\ up = [u \in {"u1"} |-> IdleUpload]
    /\ ocr = [a \in (DOMAIN up) \X (1..MAX_FILES) |-> IdleOcr]
    /\ batches = << >>
    /\ store = EmptyStore
    /\ sub = << >>
    /\ multerTmp = {}

NextIntake ==
    \/ \E u \in DOMAIN up : IntakeRequest(u)
    \/ \E u \in DOMAIN up : MulterFile(u)
    \/ \E u \in DOMAIN up : MulterDone(u)
    \/ \E u \in DOMAIN up : MkdirBatch(u)
    \/ \E u \in DOMAIN up : RenameFile(u)
    \/ \E u \in DOMAIN up : AwaitAll(u)
    \/ \E u \in DOMAIN up : UnlinkTemp(u)

SpecIntake == InitIntake /\ [][NextIntake]_vars

\* one upload and one submit request that arrive at requireAuth
InitAuth ==
    /\ env \in [ocrConfigured : {FALSE}, universe : {"auth"},
                jitters : {{0}}, authBypass : BOOLEAN,
                graphCreds : {TRUE}, siteConfigured : {TRUE}]
    /\ today = Dates[1]
    /\ up = [u \in {"u1"} |-> IdleUpload]
    /\ ocr = [a \in (DOMAIN up) \X (1..MAX_FILES) |-> IdleOcr]
    /\ batches = [id \in {ExistingBatch} |-> {StorageName(1)}]
    /\ store = EmptyStore
    /\ sub = [r \in {"s1"} |-> IdleSubmit]
    /\ multerTmp = {}

NextAuth ==
    \/ \E r \in DOMAIN sub : SubmitAuth(r)
    \/ \E r \in DOMAIN sub : SubmitVerified(r)
    \/ \E u \in DOMAIN up : UploadAuth(u)
    \/ \E u \in DOMAIN up : UploadVerified(u)
    \/ \E r \in DOMAIN sub : SubmitRequest(r)
    \/ \E r \in DOMAIN sub : MkdirTempBase(r)
    \/ \E r \in DOMAIN sub : getGraphToken(r)
    \/ \E r \in DOMAIN sub : createListItem(r)
    \/ \E r \in DOMAIN sub : MkdirBatchDir(r)
    \/ \E r \in DOMAIN sub : RenameBatch(r)
    \/ \E r \in DOMAIN sub : Readdir(r)
    \/ \E r \in DOMAIN sub : AttachFile(r)
    \/ \E r \in DOMAIN sub : WriteSignature(r)
    \/ \E r \in DOMAIN sub : AttachSignature(r)
    \/ \E r \in DOMAIN sub : SubmitCleanup(r)
    \/ \E u \in DOMAIN up : IntakeRequest(u)
    \/ \E u \in DOMAIN up : MulterFile(u)
    \/ \E u \in DOMAIN up : MulterDone(u)
    \/ \E u \in DOMAIN up : MkdirBatch(u)
    \/ \E u \in DOMAIN up : RenameFile(u)
    \/ \E u \in DOMAIN up : AwaitAll(u)
    \/ \E u \in DOMAIN up : UnlinkTemp(u)

SpecAuth == InitAuth /\ [][NextAuth]_vars

(***************************************************************************)
(* Properties                                                              *)
(***************************************************************************)
RecordsBy(r) == {rec \in store.records : rec.by = r}
AttachmentsBy(r) == {att \in store.attachments : att.by = r}

\* C1: a record returned by a succeeded analysis, submitted unchanged, passes
\* validateFields, and the record created carries exactly its field values.
C1_RoundTrip ==
    \A r \in DOMAIN sub :
        (sub[r].body.origin = "analysis" /\ sub[r].validation # "none")
        => /\ sub[r].validation = "passed"
           /\ \A rec \in RecordsBy(r) : rec.fields = sub[r].body.fields.obj

\* C2: once a submit request with the well-formed id of an existing batch has
\* run to its end, the batch directory is gone from the temporary root,
\* whatever the response was.
C2_BatchRemovedAfterSubmit ==
    \A r \in DOMAIN sub :
        ( /\ sub[r].pc = "done"
          /\ sub[r].cleanup # "none"
          /\ sub[r].body.batchId = StringOf(ExistingBatch) )
        => ExistingBatch \notin DOMAIN batches

HasErrorMarker(data) == Truthy(Get(data, "error"))
EmptyFieldValues(data) ==
    \A k \in {"vendor", "total", "transactionDate"} : Get(data, k) = Str("")

\* start response not accepted, missing operation handle, poll status failed,
\* request error, request timeout, timeout after maxRetries attempts
InternalFailures ==
    {"startNotAccepted", "noOperationLocation", "pollFailed", "requestError",
     "requestTimeout", "timedOut"}

\* C3: an analysis that failed internally returns a degraded record: an
\* error marker and empty field values.
C3_DegradedOnFailure ==
    \A a \in DOMAIN ocr :
        (ocr[a].pc = "done" /\ ocr[a].failure \in InternalFailures)
        => /\ ocr[a].out = "resolved"
           /\ HasErrorMarker(ocr[a].data)
           /\ EmptyFieldValues(ocr[a].data)

IsFieldRecord(data) == {"vendor", "total", "transactionDate"} \subseteq Keys(data)

\* C4: analyzeReceipt never rejects; whenever it has settled, it has resolved
\* with a field record.
C4_NeverRaises ==
    \A a \in DOMAIN ocr :
        /\ ocr[a].out # "rejected"
        /\ ocr[a].pc = "done"
             => ocr[a].out = "resolved" /\ IsFieldRecord(ocr[a].data)

\* an analysis whose twelfth poll timed out has resolved all the same
C4_Witness ==
    \E a \in DOMAIN ocr :
        /\ ocr[a].pc = "done"
        /\ ocr[a].failure = "requestTimeout"
        /\ ocr[a].polls = maxRetries
        /\ ocr[a].out = "resolved"

\* C5: a submission rejected as input-invalid (400, or a field-schema
\* failure) has created no record and uploaded no attachment.
C5_NoSideEffectBeforeRejection ==
    \A r \in DOMAIN sub :
        (sub[r].response.status = 400 \/ sub[r].validation = "failed")
        => RecordsBy(r) = {} /\ AttachmentsBy(r) = {}

InvalidBatchId(id) ==
    id.def /\ ( \/ ~BATCH_ID_REGEX(id.str)
                \/ ~InsideTmpRoot(PathResolve(TMP_ROOT, id.str)) )

\* C6: a request whose batchId fails the pattern or leaves the temporary root
\* is answered 'Invalid batchId', and no filesystem call on a path made from
\* that batchId precedes the answer.
C6_InvalidBatchIdRejected ==
    \A r \in DOMAIN sub :
        InvalidBatchId(sub[r].body.batchId)
        => /\ sub[r].derivedFsOps = 0
           /\ (sub[r].pc = "cleanup" \/ sub[r].cleanup # "none")
                => /\ sub[r].response.status = 400
                   /\ sub[r].response.message = "Invalid batchId"

InvalidFieldMap(f) ==
    /\ f.def
    /\ \E i \in 1..Len(f.obj) :
          f.obj[i].k \notin FIELD_SCHEMA \/ f.obj[i].v.type # "string"

\* C7: a submission whose field map has a name outside the schema or a value
\* that is not a string creates no record, uploads no attachment and is never
\* answered ok, with the store configured or not.
C7_InvalidFieldsRejected ==
    \A r \in DOMAIN sub :
        InvalidFieldMap(sub[r].body.fields)
        => /\ RecordsBy(r) = {}
           /\ AttachmentsBy(r) = {}
           /\ ~sub[r].response.ok

\* an invalid field map has been refused with the store configured
C7_Witness ==
    \E r \in DOMAIN sub :
        /\ InvalidFieldMap(sub[r].body.fields)
        /\ sub[r].validation = "failed"
        /\ sub[r].pc = "done"
        /\ sub[r].token = "token"
        /\ env.siteConfigured

\* C8: a submission refused by validateFields is answered with a 4xx status
\* and a specific message, not with a 500.
C8_InvalidFieldsAre4xx ==
    \A r \in DOMAIN sub :
        (sub[r].validation = "failed" /\ sub[r].response.status # 0)
        => /\ sub[r].response.status \in 400..499
           /\ sub[r].response.message # "Internal server error"

\* C9: when moving a file into the batch directory failed, the request ends
\* with an error response and leaves nothing behind: no batch directory (so no
\* file in it) and no multer temp file of the request.
C9_NothingLeftAfterFailedMove ==
    \A u \in DOMAIN up :
        (up[u].pc = "done" /\ up[u].failedAt = "rename")
        => /\ up[u].response.status >= 400
           /\ up[u].batchId \notin DOMAIN batches
           /\ \A k \in 1..Len(up[u].files) :
                 up[u].files[k].path \notin multerTmp

InFlight(a) == ocr[a].pc \notin {"idle", "done"}

\* C10: no response of an upload request, success or error, is sent while an
\* analysis that the request started is still in flight.
C10_NoResponseWhileInFlight ==
    \A u \in DOMAIN up :
        up[u].response.status # 0
        => \A k \in 1..Len(up[u].files) : ~InFlight(<<u, k>>)

\* str.includes(part) on strings of characters
Contains(str, part) ==
    \E i \in 0..(Len(str) - Len(part)) :
        SubSeq(str, i + 1, i + Len(part)) = part

\* the filename test of the web client's validateFiles
UnsafeName(filename) ==
    \/ Contains(filename, <<".", ".", "/">>)
    \/ Contains(filename, <<".", ".", "\\">>)
    \/ (Len(filename) > 0 /\ filename[1] = ".")

\* the declared type or the extension of the part is outside the allow-lists
DisallowedType(part) ==
    \/ part.mimetype \notin ALLOWED_MIME_TYPES
    \/ toLowerCase(extname(part.originalname)) \notin ALLOWED_EXTENSIONS

TooLarge(part) == part.size > MAX_FILE_SIZE

AnalysisStarted(u) == \E k \in 1..MAX_FILES : ocr[<<u, k>>].pc # "idle"

\* C11 as stated: every upload request with more than 5 files is answered 413
\* 'Too many files', the route handler never runs and no batch directory is
\* created.
C11_AsStated ==
    \A u \in DOMAIN up :
        Len(up[u].request) > MAX_FILES
        => /\ ~up[u].handler
           /\ batches = << >>
           /\ up[u].pc = "done"
                => /\ up[u].response.status = 413
                   /\ Includes(up[u].response.message, "Too many files")

\* C11: a request with more than 5 files is refused with a 400 or a 413, the
\* route handler never runs and no batch directory is created; the answer is
\* 413 'Too many files' when none of the first five files is refused for its
\* type, its extension or its size.
C11_TooManyFilesRejected ==
    \A u \in DOMAIN up :
        Len(up[u].request) > MAX_FILES
        => /\ ~up[u].handler
           /\ batches = << >>
           /\ up[u].pc = "done"
                => /\ up[u].response.status \in {400, 413}
                   /\ (\A k \in 1..MAX_FILES :
                          /\ ~DisallowedType(up[u].request[k])
                          /\ ~TooLarge(up[u].request[k]))
                        => /\ up[u].response.status = 413
                           /\ Includes(up[u].response.message,
                                       "Too many files")

\* six files, five of them taken by multer, answered 413 'Too many files'
C11_Witness ==
    \E u \in DOMAIN up :
        /\ Len(up[u].request) = MAX_FILES + 1
        /\ up[u].seen = MAX_FILES + 1
        /\ up[u].written = 1..MAX_FILES
        /\ up[u].pc = "done"
        /\ up[u].response.status = 413
        /\ Includes(up[u].response.message, "Too many files")

\* C12 as stated: every request containing a file of a disallowed type or
\* extension is answered 400 with a 'not allowed' message, and no byte of
\* that file is written under TMP_ROOT.
C12_AsStated ==
    \A u \in DOMAIN up : \A k \in 1..Len(up[u].request) :
        DisallowedType(up[u].request[k])
        => /\ k \notin up[u].written
           /\ up[u].pc = "done"
                => /\ up[u].response.status = 400
                   /\ Includes(up[u].response.message, "not allowed")

\* C12: a request containing a file of a disallowed type or extension is
\* refused with a 400 or a 413 without the route handler running, and no byte
\* of that file is written under TMP_ROOT; the answer is 400 'not allowed'
\* when the file is among the first five and no file before it is above
\* 10 MiB.
C12_DisallowedTypeRejected ==
    \A u \in DOMAIN up : \A k \in 1..Len(up[u].request) :
        DisallowedType(up[u].request[k])
        => /\ k \notin up[u].written
           /\ ~up[u].handler
           /\ up[u].pc = "done"
                => /\ up[u].response.status \in {400, 413}
                   /\ (k <= MAX_FILES /\
                       \A j \in 1..(k - 1) : ~TooLarge(up[u].request[j]))
                        => /\ up[u].response.status = 400
                           /\ Includes(up[u].response.message, "not allowed")

\* a file with an allowed type and the extension .EXE, behind a stored file,
\* has been refused with 400 'File type .exe not allowed'
C12_Witness ==
    \E u \in DOMAIN up :
        /\ up[u].request = <<PlainFile, WrongExtFile>>
        /\ up[u].written = {1}
        /\ up[u].pc = "done"
        /\ up[u].response.status = 400
        /\ up[u].response.message =
             <<"File type", ".", "e", "x", "e", "not allowed">>

\* the part breaks a rule of the intake validator: type, extension, size
\* above the maximum, size 0, unsafe name
ViolatesRule(part) ==
    \/ DisallowedType(part)
    \/ TooLarge(part)
    \/ part.size = 0
    \/ UnsafeName(part.originalname)

\* C13: when any one file of a request breaks a validation rule, or the
\* request has too many files, the whole request is rejected: the handler
\* creates no batch directory, no analysis is started and the response
\* carries no analysis result.
C13_NoPartialAcceptance ==
    \A u \in DOMAIN up :
        ( \/ Len(up[u].request) > MAX_FILES
          \/ \E k \in 1..Len(up[u].request) : ViolatesRule(up[u].request[k]) )
        => /\ batches = << >>
           /\ ~AnalysisStarted(u)
           /\ up[u].pc = "done"
                => /\ up[u].response.status \in {400, 413}
                   /\ up[u].response.results = << >>

\* C14: a request whose only file other than plain receipt images has a name
\* containing ../ or ..\ or beginning with "." never reaches the route
\* handler and is answered 400.
C14_UnsafeNameRejected ==
    \A u \in DOMAIN up : \A k \in 1..Len(up[u].request) :
        ( /\ UnsafeName(up[u].request[k].originalname)
          /\ Len(up[u].request) <= MAX_FILES
          /\ \A j \in 1..Len(up[u].request) :
                j # k => up[u].request[j] = PlainFile )
        => /\ ~up[u].handler
           /\ up[u].pc = "done" => up[u].response.status = 400

\* C15: a request containing a file of size 0 is rejected and no batch
\* directory is created for it.
C15_EmptyFileRejected ==
    \A u \in DOMAIN up :
        (\E k \in 1..Len(up[u].request) : up[u].request[k].size = 0)
        => /\ batches = << >>
           /\ up[u].pc = "done" => up[u].response.status \in {400, 413}

\* C16: a request with no files is answered 400 by the route handler; no
\* batchId is generated and no batch directory is created.
C16_NoFilesRejected ==
    \A u \in DOMAIN up :
        (up[u].request = << >> /\ up[u].handler)
        => /\ up[u].pc = "done"
           /\ up[u].response.status = 400
           /\ up[u].response.message = <<"No files uploaded">>
           /\ up[u].batchId = << >>
           /\ batches = << >>

\* the handler has answered a body without file parts
C16_Witness ==
    \E u \in DOMAIN up :
        /\ up[u].request = << >>
        /\ up[u].seen = 0
        /\ up[u].handler
        /\ up[u].response.status = 400

\* C17: when every file of a request was stored, the request is answered 200
\* with exactly one result entry per file, in upload order, each entry naming
\* its file and carrying the outcome of that file's analysis and of no other.
C17_OneResultPerFile ==
    \A u \in DOMAIN up :
        (up[u].pc = "done" /\ up[u].failedAt = "none" /\ Len(up[u].files) > 0)
        => /\ up[u].response.status = 200
           /\ Len(up[u].response.results) = Len(up[u].files)
           /\ \A k \in 1..Len(up[u].files) :
                 /\ up[u].response.results[k].file = up[u].files[k].originalname
                 /\ up[u].response.results[k].secureFile =
                      up[u].files[k].secureFilename
                 /\ up[u].response.results[k].data = ocr[<<u, k>>].data

\* two files, the analysis of the first failed and that of the second
\* succeeded: two entries in upload order with different data
C17_Witness ==
    \E u \in DOMAIN up :
        /\ up[u].response.status = 200
        /\ Len(up[u].files) = 2
        /\ ocr[<<u, 1>>].failure = "startNotAccepted"
        /\ ocr[<<u, 2>>].failure = "none"
        /\ Get(up[u].response.results[1].data, "vendor") = Str("Demo Store")
        /\ Get(up[u].response.results[2].data, "vendor") = Str("ACME")

\* C18: the fields of an upload response are the data of the first entry of
\* results that has no error marker, and of the first entry when every entry
\* has one.
C18_FieldsFromPrimary ==
    \A u \in DOMAIN up :
        up[u].response.status = 200
        => LET results == up[u].response.results IN
           /\ \A k \in 1..Len(results) :
                 ( /\ ~HasErrorMarker(results[k].data)
                   /\ \A j \in 1..(k - 1) : HasErrorMarker(results[j].data) )
                 => up[u].response.fields = results[k].data
           /\ (\A k \in 1..Len(results) : HasErrorMarker(results[k].data))
                 => up[u].response.fields = results[1].data

\* two entries with different data: the fields are those of the first
C18_Witness ==
    \E u \in DOMAIN up :
        /\ up[u].response.status = 200
        /\ Len(up[u].response.results) = 2
        /\ ~HasErrorMarker(up[u].response.results[1].data)
        /\ up[u].response.results[1].data # up[u].response.results[2].data
        /\ up[u].response.fields = up[u].response.results[1].data

\* C19: with the endpoint or the key missing, analyzeReceipt reads no file and
\* sends no request, and it returns at once the demo record: vendor
\* 'Demo Store', total '12.34', transactionDate the date of the call.
C19_DemoWhenUnconfigured ==
    /\ [](\A a \in DOMAIN ocr :
             ~env.ocrConfigured
             => /\ ocr[a].reads = 0
                /\ ocr[a].starts = 0
                /\ ocr[a].polls = 0
                /\ ocr[a].pc \in {"idle", "done"})
    /\ [][\A a \in DOMAIN ocr :
             (~env.ocrConfigured /\ ocr[a].pc = "idle" /\ ocr'[a].pc # "idle")
             => /\ ocr'[a].out = "resolved"
                /\ Get(ocr'[a].data, "vendor") = Str("Demo Store")
                /\ Get(ocr'[a].data, "total") = Str("12.34")
                /\ Get(ocr'[a].data, "transactionDate") = Str(today)
                /\ ocr'[a].data = _getMockData(today)]_vars

\* an unconfigured call made on the second day has returned that day's demo
\* record without a read or a request
C19_Witness ==
    \E a \in DOMAIN ocr :
        /\ ~env.ocrConfigured
        /\ ocr[a].pc = "done"
        /\ ocr[a].reads + ocr[a].starts + ocr[a].polls = 0
        /\ today = Dates[2]
        /\ Get(ocr[a].data, "vendor") = Str("Demo Store")
        /\ Get(ocr[a].data, "transactionDate") = Str(Dates[2])

\* the signature is present and is not data:image/png;base64,<payload>, or
\* its decoded payload is empty or above 100 KiB
InvalidSignature(sig) ==
    /\ sig.def
    /\ \/ ~SignatureMatches(sig)
       \/ DecodedBytes(sig) = 0
       \/ DecodedBytes(sig) > MaxSignatureBytes

SignatureAttachmentsBy(r) ==
    {att \in AttachmentsBy(r) : att.name = SignatureName}

\* the handler has sent its response from inside its try block
Responded(r) ==
    /\ sub[r].response.status # 0
    /\ (sub[r].pc = "cleanup" \/ sub[r].cleanup # "none")

BatchAttachmentsBy(r) ==
    {att \in AttachmentsBy(r) : att.name # SignatureName}

\* C21: a submit request with schema-valid fields and the well-formed id of a
\* batch that does not exist takes no step of the batch attachment and
\* uploads no batch attachment, and the missing batch is no error: the
\* request is never answered 'Invalid batchId', a refusal is the 500 of a
\* failed step or 'Invalid signature', and with the record created and no
\* signature to attach the answer is { ok: true, itemId }.
C21_AbsentBatchIsNoError ==
    \A r \in DOMAIN sub :
        ( /\ ~InvalidFieldMap(sub[r].body.fields)
          /\ sub[r].body.batchId = StringOf(AbsentBatch) )
        => /\ BatchAttachmentsBy(r) = {}
           /\ sub[r].pc \notin {"mkdirBatch", "renameBatch", "readdir", "attach"}
           /\ ~sub[r].batchMoved
           /\ sub[r].response.message # "Invalid batchId"
           /\ (Responded(r) /\ ~sub[r].response.ok)
                => \/ sub[r].response.status = 500
                   \/ sub[r].response.message = "Invalid signature"
           /\ ( /\ Responded(r)
                /\ sub[r].itemId # << >>
                /\ ~TruthySignature(sub[r].body.signatureDataUrl) )
                => /\ sub[r].response.status = 200
                   /\ sub[r].response.ok
                   /\ sub[r].response.itemId = sub[r].itemId

\* with the store configured, a record has been created for a request naming
\* the absent batch, and the request has ended ok without an attachment
C21_Witness ==
    \E r \in DOMAIN sub :
        /\ sub[r].body.batchId = StringOf(AbsentBatch)
        /\ sub[r].token = "token"
        /\ env.siteConfigured
        /\ RecordsBy(r) # {}
        /\ AttachmentsBy(r) = {}
        /\ sub[r].response.ok
        /\ sub[r].response.itemId = <<"item", r>>
        /\ sub[r].pc = "done"

\* the fields the submit test posts
TestFields ==
    [def |-> TRUE, obj |-> << Entry("vendor", Str("Test Store")),
                              Entry("total", Str("12.34")),
                              Entry("transactionDate", Str("2024-01-01")) >>]

\* a batchId string under which no batch was stored
NeverStored(id) == id.def /\ id # StringOf(ExistingBatch)

C23_AsStated ==
    \A r \in DOMAIN sub :
        (sub[r].pc = "cleanup" /\ sub[r].attempted # {})
        => sub[r].tempBatch \subseteq sub[r].attempted

\* C23: no upload of a submission is attempted once its cleanup has started,
\* and when the cleanup starts after an ok response every file of the batch
\* and the signature have had their upload attempt; files are left without an
\* attempt only when a step failed or the signature was refused.
C23_CleanupAfterUploads ==
    /\ [](\A r \in DOMAIN sub :
             sub[r].pc = "cleanup"
             => /\ sub[r].response.ok
                     => /\ sub[r].tempBatch \subseteq sub[r].attempted
                        /\ TruthySignature(sub[r].body.signatureDataUrl)
                             => sub[r].sigAttempted
                /\ ~(sub[r].tempBatch \subseteq sub[r].attempted)
                     => sub[r].response.status = 500)
    /\ [][\A r \in DOMAIN sub :
             sub[r].pc \in {"cleanup", "done"}
             => /\ sub'[r].attempted = sub[r].attempted
                /\ sub'[r].sigAttempted = sub[r].sigAttempted
                /\ {att \in store'.attachments : att.by = r} = AttachmentsBy(r)
                /\ sub'[r].pc = "done"]_vars

\* the cleanup is about to start after both files of the batch and the
\* signature were uploaded
C23_Witness ==
    \E r \in DOMAIN sub :
        /\ sub[r].pc = "cleanup"
        /\ sub[r].response.ok
        /\ Cardinality(sub[r].attempted) = 2
        /\ sub[r].tempBatch = sub[r].attempted
        /\ sub[r].sigAttempted
        /\ Cardinality(AttachmentsBy(r)) = 3

\* C24: the cleanup of a submission never changes its response, whether the
\* removal of the temporary storage succeeds or fails, and a failed removal
\* ends the request like a successful one; a request answered
\* { ok: true, itemId } keeps that answer.
C24_CleanupNeverChangesResponse ==
    /\ [][\A r \in DOMAIN sub :
             sub[r].pc = "cleanup"
             => /\ sub'[r].response = sub[r].response
                /\ sub'[r].pc \in {"cleanup", "done"}]_vars
    /\ [](\A r \in DOMAIN sub :
             sub[r].cleanup = "failed"
             => /\ sub[r].pc = "done"
                /\ sub[r].response.status \in {200, 400, 500}
                /\ sub[r].response.status = 200
                     <=> (sub[r].response.ok /\ sub[r].response.itemId = sub[r].itemId))

\* the record and three attachments were created, the request was answered
\* ok, and the removal of the temporary storage then failed
C24_Witness ==
    \E r \in DOMAIN sub :
        /\ sub[r].cleanup = "failed"
        /\ sub[r].tempBase
        /\ RecordsBy(r) # {}
        /\ Cardinality(AttachmentsBy(r)) = 3
        /\ sub[r].response.status = 200
        /\ sub[r].response.ok
        /\ sub[r].response.itemId = <<"item", r>>

\* the stored batch is gone: a submission moved it out of TMP_ROOT
BatchAbsent == ExistingBatch \notin DOMAIN batches

\* C25: destroying a batch that is already absent raises no error and
\* changes nothing: a submission that names a batch an earlier submission
\* has already consumed takes no step on the batch, leaves the stored
\* batches and the batch attachments as they are, and is answered as a
\* submission without a batch is; its cleanup ends the request.
C25_DestructionIdempotent ==
    /\ [](\A r \in DOMAIN sub :
             BatchAbsent /\ ~sub[r].batchMoved /\ sub[r].cleanup = "none"
             => /\ sub[r].pc \notin {"mkdirBatch", "renameBatch", "readdir",
                                     "attach"}
                /\ sub[r].tempBatch = {}
                /\ BatchAttachmentsBy(r) = {})
    /\ [][\A r \in DOMAIN sub :
             (BatchAbsent /\ sub[r].pc = "createListItem"
                /\ sub'[r].validation = "passed"
                /\ sub'[r].itemId # << >>)
             => /\ batches' = batches
                /\ sub'[r].response.status # 500
                /\ ~TruthySignature(sub[r].body.signatureDataUrl)
                     => /\ sub'[r].pc = "cleanup"
                        /\ sub'[r].response.ok]_vars
    /\ [][\A r \in DOMAIN sub :
             (BatchAbsent /\ sub[r].pc = "cleanup")
             => /\ sub'[r].pc \in {"cleanup", "done"}
                /\ sub'[r].response = sub[r].response
                /\ batches' = batches]_vars

\* both submissions named the same batch, the first attached its files and
\* removed it, and the second was answered ok as well
C25_Witness ==
    /\ BatchAbsent
    /\ \A r \in DOMAIN sub :
         /\ sub[r].pc = "done"
         /\ sub[r].body.batchId = StringOf(ExistingBatch)
         /\ sub[r].response.ok
         /\ sub[r].cleanup = "ok"
    /\ \E r \in DOMAIN sub : Cardinality(BatchAttachmentsBy(r)) = 2
    /\ \E r \in DOMAIN sub : BatchAttachmentsBy(r) = {} /\ RecordsBy(r) # {}

\* C26: a submission in which getGraphToken, createListItem's request or
\* an uploadAttachment failed is answered 500 with the message
\* 'Internal server error' and a requestId; neither the status nor the
\* message of the response is the external service's status, its error
\* text or the message of the Error built from them.
C26_GenericInternalError ==
    \A r \in DOMAIN sub :
        sub[r].error.step # "none"
        => /\ sub[r].pc \in {"cleanup", "done"}
           /\ sub[r].response.status = 500
           /\ sub[r].response.message = "Internal server error"
           /\ sub[r].response.requestId
           /\ ~sub[r].response.ok
           /\ sub[r].response.itemId = << >>
           /\ sub[r].response.status # sub[r].error.status
           /\ sub[r].response.message
                \notin {sub[r].error.message, sub[r].error.text}

\* the record and one attachment were created, then an attachment upload
\* was refused by the service and the request was answered 500
C26_Witness ==
    \E r \in DOMAIN sub :
        /\ sub[r].error = GraphFailure("uploadAttachment")
        /\ RecordsBy(r) # {}
        /\ AttachmentsBy(r) # {}
        /\ sub[r].response.status = 500
        /\ sub[r].response.requestId

\* the request carries no Bearer token
Anonymous(header) ==
    \/ ~header.def
    \/ header.scheme # "Bearer "
    \/ header.rest = ""

\* the request was refused by requireAuth or by the verifier
Unauthenticated(s) ==
    /\ ~env.authBypass
    /\ s.pc # "idle"
    /\ Anonymous(s.auth.header) \/ s.auth.verdict = "rejected"

\* something behind requireAuth has run for the request
SubmitRan(r) ==
    \/ sub[r].body # NoBody
    \/ sub[r].tempBase
    \/ sub[r].token # "none"
    \/ sub[r].validation # "none"
    \/ RecordsBy(r) # {}
    \/ AttachmentsBy(r) # {}
UploadRan(u) ==
    \/ up[u].request # << >>
    \/ up[u].seen # 0
    \/ up[u].written # {}
    \/ up[u].handler
    \/ up[u].files # << >>
    \/ up[u].batchId # << >>

StoredBy(u) ==
    {up[u].files[k].secureFilename : k \in 1..Len(up[u].files)}

\* C28: two upload requests never store their files in the same batch
\* directory: the files of a batch directory are files of one request.
C28_BatchPerRequest ==
    \A id \in DOMAIN batches :
        \A u, v \in DOMAIN up :
            (StoredBy(u) \cap batches[id] # {} /\ StoredBy(v) \cap batches[id] # {})
            => u = v

\* the poll request answered with a status that is `failed` or none of
\* succeeded, failed, running, notStarted
HardFailure(resp) ==
    /\ resp.kind = "json"
    /\ resp.status \notin {"succeeded", "running", "notStarted"}

\* the call as it is when the response of its pending poll request arrives
Polled(a) == [ocr[a] EXCEPT !.polls = @ + 1]

\* C29: a poll response with status `failed`, or with a status other than
\* succeeded, failed, running and notStarted, ends polling on whichever
\* attempt it arrives: the call is over once the response is handled.
C29_HardFailureEndsPolling ==
    \A a \in DOMAIN ocr :
        ocr[a].pc = "poll"
        => \A resp \in PollResponses :
             HardFailure(resp) => PollOutcome(Polled(a), resp).pc = "done"

\* a poll response that tells that the analysis goes on
StillRunning(resp) ==
    resp.kind = "json" /\ resp.status \in {"running", "notStarted"}

\* C30: a poll response with status `succeeded` ends polling with the
\* record extracted from that payload, and no poll request is issued once
\* the call is over; a response with status `running` or `notStarted` on
\* an attempt that is not the last leads to the backoff wait, which is
\* followed by another poll request (pc = "poll": the request is pending).
C30_SucceededEndsRunningContinues ==
    /\ [](\A a \in DOMAIN ocr :
            ocr[a].pc = "poll"
            => \A resp \in PollResponses :
                 /\ (resp.kind = "json" /\ resp.status = "succeeded")
                      => PollOutcome(Polled(a), resp)
                           = Resolve(Polled(a),
                                     _extractReceiptData(resp.payload, today),
                                     "none")
                 /\ (StillRunning(resp) /\ ocr[a].attempt < maxRetries - 1)
                      => /\ PollOutcome(Polled(a), resp).pc = "delay"
                         /\ PollOutcome(Polled(a), resp).attempt
                              = ocr[a].attempt + 1
                         /\ PollOutcome(Polled(a), resp).out = "none")
    /\ [][\A a \in DOMAIN ocr :
            /\ ocr[a].pc = "done" => ocr'[a].polls = ocr[a].polls
            /\ ocr[a].pc = "delay" => ocr'[a].pc \in {"delay", "poll"}]_vars
    /\ \A a \in {"direct"} : (ocr[a].pc = "delay") ~> (ocr[a].pc = "poll")

\* the third poll response was `succeeded` after two that were not, and
\* the call resolved with the record of its payload
C30_Witness ==
    \E a \in DOMAIN ocr :
        /\ env.ocrConfigured
        /\ ocr[a].pc = "done"
        /\ ocr[a].polls = 3
        /\ ocr[a].out = "resolved"
        /\ ocr[a].failure = "none"
        /\ \E p \in Payloads :
             /\ p.doc # "none"
             /\ ocr[a].data = _extractReceiptData(p, today)

\* the failure that handling the response leaves when it is the last one
PollFailure(resp) ==
    CASE resp.kind = "timeout" -> "requestTimeout"
      [] resp.kind = "netError" -> "requestError"
      [] resp.kind = "notOk" -> "pollNotOk"
      [] resp.status = "failed" -> "pollFailed"
      [] resp.status \in {"running", "notStarted"} -> "timedOut"
      [] OTHER -> "unknownStatus"

\* C31: one analysis issues at most 12 poll requests, the request of attempt
\* k being the (k+1)-th; when the 12th response is not `succeeded` either,
\* polling ends in a failure, the time-out or the error of that attempt, and
\* the call does not return a record extracted from a poll payload.
C31_AtMostTwelvePolls ==
    \A a \in DOMAIN ocr :
        /\ ocr[a].polls <= maxRetries
        /\ ocr[a].pc \in {"poll", "delay"}
             => /\ ocr[a].polls = ocr[a].attempt
                /\ ocr[a].attempt < maxRetries
        /\ (ocr[a].pc = "poll" /\ ocr[a].attempt = maxRetries - 1)
             => \A resp \in PollResponses :
                  ~(resp.kind = "json" /\ resp.status = "succeeded")
                  => /\ PollOutcome(Polled(a), resp).pc = "done"
                     /\ PollOutcome(Polled(a), resp).polls = maxRetries
                     /\ PollOutcome(Polled(a), resp).failure = PollFailure(resp)
                     /\ PollOutcome(Polled(a), resp).data = _getMockData(today)
        /\ (ocr[a].pc = "done" /\ ocr[a].failure # "none")
             => \E d \in DOMAIN Dates : ocr[a].data = _getMockData(Dates[d])

\* twelve polls were answered, none with `succeeded`, and the call ended
\* with the time-out failure
C31_Witness ==
    \E a \in DOMAIN ocr :
        /\ ocr[a].pc = "done"
        /\ ocr[a].polls = maxRetries
        /\ ocr[a].failure = "timedOut"
        /\ \E d \in DOMAIN Dates : ocr[a].data = _getMockData(Dates[d])

\* C32: the wait before the second poll is pollInterval (2000 ms); every
\* later wait is min(previous wait x 1.2 + jitter, 10000 ms) for a jitter
\* the run can draw from [0, 1000); every wait lies in [2000, 10000] ms and
\* no wait is shorter than the one before it.
C32_BackoffRule ==
    /\ [](\A a \in DOMAIN ocr :
            /\ ocr[a].pc = "delay"
                 => /\ ocr[a].delay \in pollInterval..MaxDelay
                    /\ ocr[a].attempt = 1 => ocr[a].delay = pollInterval
            /\ (ocr[a].pc = "poll" /\ ocr[a].attempt >= 1)
                 => ocr[a].waited \in pollInterval..MaxDelay)
    /\ [][\A a \in DOMAIN ocr :
            (ocr[a].pc = "delay" /\ ocr'[a].pc = "poll")
            => /\ ocr'[a].waited = ocr[a].delay
               /\ ocr[a].attempt > 1
                    => /\ ocr'[a].waited >= ocr[a].waited
                       /\ \E jitter \in env.jitters :
                            /\ jitter \in 0..999
                            /\ ocr'[a].waited
                                 = Min((ocr[a].waited * 12) \div 10 + jitter,
                                       MaxDelay)]_vars

\* the cap was reached: the wait before the last poll was 10000 ms, after a
\* shorter wait before an earlier one
C32_Witness ==
    \E a \in DOMAIN ocr :
        /\ ocr[a].pc = "poll"
        /\ ocr[a].attempt = maxRetries - 1
        /\ ocr[a].waited = MaxDelay

\* the poll request timed out, failed at the network level or was answered
\* with a status that is not OK
RequestFailed(resp) == resp.kind \in {"timeout", "netError", "notOk"}

\* C33: a poll request that times out, fails at the network level or gets a
\* non-OK status counts as one attempt; on attempts 0..10 the analysis goes
\* on with the backoff wait, after which the next poll request is issued; on
\* attempt 11 it ends the polling with that error.
C33_RequestFailureIsOneAttempt ==
    /\ [](\A a \in DOMAIN ocr :
            ocr[a].pc = "poll"
            => \A resp \in PollResponses :
                 RequestFailed(resp)
                 => LET o == PollOutcome(Polled(a), resp) IN
                    /\ o.polls = ocr[a].polls + 1
                    /\ IF ocr[a].attempt < maxRetries - 1
                       THEN /\ o.pc = "delay"
                            /\ o.attempt = ocr[a].attempt + 1
                            /\ o.out = "none"
                            /\ o.delay = ocr[a].delay
                       ELSE /\ o.pc = "done"
                            /\ o.failure = PollFailure(resp))
    /\ [][\A a \in DOMAIN ocr :
            (ocr[a].pc = "delay" /\ ocr'[a] # ocr[a])
            => /\ ocr'[a].pc = "poll"
               /\ ocr'[a].attempt = ocr[a].attempt
               /\ ocr'[a].polls = ocr[a].polls]_vars
    /\ \A a \in {"direct"} :
         (ocr[a].pc = "delay" /\ ocr[a].attempt < maxRetries)
           ~> (ocr[a].pc = "poll" /\ ocr[a].attempt < maxRetries)

\* the 12th poll request timed out after eleven polls that did not end the
\* analysis, and the call ended with that error
C33_Witness ==
    \E a \in DOMAIN ocr :
        /\ ocr[a].pc = "done"
        /\ ocr[a].polls = maxRetries
        /\ ocr[a].failure = "requestTimeout"

\* the service reported a confidence for the field, and it is below 0.5
BelowThreshold(field) ==
    /\ field.present
    /\ field.confidence.type = "number"
    /\ field.confidence.n < ConfidenceThreshold

\* C34: when a succeeded analysis reports a confidence below 0.5 for a
\* target field, 0 included, the call extracts the empty string for that
\* field.
C34_LowConfidenceIsEmpty ==
    \A a \in DOMAIN ocr :
        ocr[a].pc = "poll"
        => \A resp \in PollResponses :
             ( /\ resp.kind = "json" /\ resp.status = "succeeded"
               /\ resp.payload.doc = "fields"
               /\ BelowThreshold(resp.payload.fields.Total) )
             => Get(PollOutcome(Polled(a), resp).data, "total") = Str("")

\* the values of crypto.randomUUID()
RandomUuids == {Uuids[i] : i \in DOMAIN Uuids}

\* C35: every file in a batch directory is named <UUID><extension>, the
\* UUID drawn by the server and the extension one of .jpg, .jpeg, .png,
\* .gif, .pdf; the extension is the lower-cased extension of the original
\* name of a file of the request, and nothing else of that name is used.
C35_StorageNames ==
    \A id \in DOMAIN batches :
        \A name \in batches[id] :
            /\ name.stem \in RandomUuids
            /\ name.ext \in ALLOWED_EXTENSIONS
            /\ \E u \in DOMAIN up :
                 /\ up[u].batchId = id
                 /\ \E k \in 1..Len(up[u].files) :
                      /\ up[u].files[k].secureFilename = name
                      /\ name.ext
                           = toLowerCase(extname(up[u].files[k].originalname))

\* a file sent as ..\x.PNG is in the batch of an answered upload under a
\* UUID name with the extension .png
C35_Witness ==
    \E u \in DOMAIN up :
        /\ up[u].pc = "done"
        /\ up[u].response.status = 200
        /\ \E k \in 1..Len(up[u].files) :
             /\ up[u].files[k].originalname = WindowsTraversalFile.originalname
             /\ up[u].batchId \in DOMAIN batches
             /\ up[u].files[k].secureFilename \in batches[up[u].batchId]
             /\ up[u].files[k].secureFilename.ext = <<".", "p", "n", "g">>

\* C36: within an upload request the analysis of file k has been started
\* only if the batch directory exists and file k has been moved into it
\* from the upload area; the file an analysis reads is in the batch
\* directory of its request.
C36_AnalysisAfterMove ==
    \A u \in DOMAIN up :
        \A k \in 1..MaxUploadFiles :
            ocr[<<u, k>>].pc # "idle"
            => /\ k <= Len(up[u].files)
               /\ up[u].batchId \in DOMAIN batches
               /\ DestName(up[u].files[k]) \in batches[up[u].batchId]
               /\ up[u].files[k].path \notin multerTmp
               /\ up[u].pc \notin {"idle", "mkdir"}

\* the analysis of the second file has read it and waits for the start
\* request, with both files in the batch directory
C36_Witness ==
    \E u \in DOMAIN up :
        /\ Len(up[u].files) = 2
        /\ ocr[<<u, 2>>].pc = "startRequest"
        /\ ocr[<<u, 2>>].reads = 1
        /\ {DestName(up[u].files[k]) : k \in 1..2} = batches[up[u].batchId]

\* C37: the batchId of every successful upload response matches the
\* pattern that submit tests, /^batch-[0-9]+-[a-z0-9]+$/, whatever Date.now()
\* and Math.random() returned.
C37_BatchIdMatchesPattern ==
    \A u \in DOMAIN up :
        (up[u].pc = "done" /\ up[u].response.status = 200)
        => BATCH_ID_REGEX(up[u].response.batchId)

\* the requests that uploaded the stored file called name as an attachment
Uploaders(name) == {att.by : att \in {x \in store.attachments : x.name = name}}

\* C38: under every interleaving of two submit requests that carry the same
\* batchId, each stored file of the batch is uploaded as an attachment by at
\* most one of the requests and to at most one record; at most one request
\* holds the files of the batch.
C38_OneSubmitterPerFile ==
    /\ \A name \in {att.name : att \in store.attachments} \ {SignatureName} :
         /\ Cardinality(Uploaders(name)) <= 1
         /\ Cardinality({att.item : att \in {x \in store.attachments :
                                               x.name = name}}) <= 1
    /\ Cardinality({r \in DOMAIN sub : BatchAttachmentsBy(r) # {}}) <= 1
    /\ Cardinality({r \in DOMAIN sub : sub[r].tempBatch # {}}) <= 1

\* both requests found the batch and tried to move it: one attached its two
\* files and was answered ok, the other created its record, lost the move
\* and was answered 500
C38_Witness ==
    \E r, q \in DOMAIN sub :
        /\ r # q
        /\ sub[r].pc = "done" /\ sub[q].pc = "done"
        /\ sub[r].body.batchId = sub[q].body.batchId
        /\ sub[r].derivedFsOps = 2 /\ sub[q].derivedFsOps = 2
        /\ Cardinality(BatchAttachmentsBy(r)) = 2
        /\ sub[r].response.ok
        /\ RecordsBy(q) # {}
        /\ BatchAttachmentsBy(q) = {}
        /\ sub[q].response.status = 500

\* C39: every submit request that has passed requireAuth is eventually
\* answered, whichever of its steps fails, and the response it got is never
\* replaced by another one.
C39_ExactlyOneResponse ==
    /\ \A r \in {"s1"} :
         (sub[r].pc # "idle") ~> (sub[r].response.status # 0)
    /\ [][\A r \in DOMAIN sub :
            sub[r].response.status # 0
            => sub'[r].response = sub[r].response]_vars

\* C40: a call of analyzeReceipt that has begun always returns, after at
\* most one read of the file, one start request and maxRetries poll
\* requests, whatever the analysis service answers; once it has returned
\* it issues no further request.
C40_AnalyzeTerminates ==
    /\ [](\A a \in DOMAIN ocr :
            /\ ocr[a].reads <= 1
            /\ ocr[a].starts <= 1
            /\ ocr[a].polls <= maxRetries)
    /\ [][\A a \in DOMAIN ocr :
            ocr[a].pc = "done" => ocr'[a] = ocr[a]]_vars
    /\ \A a \in {"direct"} : (ocr[a].pc = "readFile") ~> (ocr[a].pc = "done")

\* a call returned after its start request and twelve polls none of which
\* reported `succeeded`
C40_Witness ==
    \E a \in DOMAIN ocr :
        /\ ocr[a].pc = "done"
        /\ ocr[a].out = "resolved"
        /\ ocr[a].starts = 1
        /\ ocr[a].polls = maxRetries
        /\ ocr[a].failure = "timedOut"

====
